---------------------------- MODULE Spec2Model ----------------------------
(***************************************************************************)
(* NavigationAgentV2 (backend/app/agent/navigation_agent_v2.py) driven by  *)
(* the chat API (backend/app/api/chat.py): one conversation thread of the  *)
(* LangGraph graph agent -> execution -> response, with its checkpointed   *)
(* state, the HITL interrupts of the execution node and the two caller     *)
(* entry points chat_stream (new turn) and resume_chat (resume).           *)
(*                                                                         *)
(* One action of the model is one super-step of the graph (a node and the  *)
(* conditional edge that follows it) or one caller entry point.            *)
(***************************************************************************)
EXTENDS Naturals, Integers, Sequences, FiniteSets, TLC

(***************************************************************************)
(* Bounds of the model.  MAX_ITERATIONS and MAX_TOTAL_TOOL_CALLS stand for *)
(* AgentConfig.MAX_ITERATIONS = 10 and AgentConfig.MAX_TOTAL_TOOL_CALLS =  *)
(* 50 (navigation_agent_v2.py:38-39); the code only compares counters with *)
(* them, so they are scaled down to values a bounded run can reach.        *)
(***************************************************************************)
MAX_ITERATIONS == 3
MAX_TOTAL_TOOL_CALLS == 2
\* tool calls in one LLM answer, user turns
MaxActions == 2
MaxTurns == 2
\* tool calls the LLM emits in one conversation: MaxCalls when it draws on
\* every tool and argument of the model, MaxPlainCalls when it only calls
\* loaded tools with complete arguments (see llm_profile)
MaxCalls == 2
MaxPlainCalls == 3

(***************************************************************************)
(* Inputs.                                                                 *)
(***************************************************************************)
\* tool_call ids the LLM provider puts on tool calls, in the order it first
\* uses them (ids are opaque: a first use takes the next one of IdSeq)
IdSeq == <<"t1", "t2", "t3", "t4", "t5">>
IDS == {IdSeq[j] : j \in 1..MaxPlainCalls}
\* f"call_{i}" (navigation_agent_v2.py:349), by 1-based position
FallbackIds == <<"call_0", "call_1", "call_2", "call_3">>

\* tool names the LLM may request; the last one is not a loaded tool
ToolNames == {"search_poi", "start_navigation", "unknown_tool"}
\* self.tools after __init__ (MCP tools, weather tools, memory tools)
tools == {"search_poi", "start_navigation"}

ArgKeys == {"keyword", "destination"}
\* arguments the LLM emits: "" is an empty string argument
LLMArgs == [ArgKeys -> {"", "A"}]

\* what tool.ainvoke does: raise, return a plain text, return a list of 2
ToolOutcomes == {"raise", "text", "list"}

(***************************************************************************)
(* hitl_config.py registries (the entries of the tools modelled here).     *)
(***************************************************************************)
require_confirmation == {"start_navigation", "stop_navigation", "book_ticket",
                         "cancel_ticket", "pay_order",
                         "memory_save_user_profile", "memory_save_relationship"}

param_prompts == {<<"search_poi", "keyword">>,
                  <<"search_nearby_poi", "keyword">>,
                  <<"start_navigation", "destination">>,
                  <<"get_weather", "city">>}

need_confirmation(tool_name) == tool_name \in require_confirmation

get_missing_param_prompt(tool_name, param_name) ==
    <<tool_name, param_name>> \in param_prompts

\* is_candidate_list with the default min_count, on the modelled results
is_candidate_list(result) == result = "list"

(***************************************************************************)
(* Resume values (ResumeRequest.resume_value is Any): a string token, a    *)
(* dict with "params", or a dict with "selected".                          *)
(***************************************************************************)
NoParams == [k \in {} |-> ""]
Token(t) == [kind |-> "token", token |-> t, params |-> NoParams, selected |-> ""]
Patch(p) == [kind |-> "params", token |-> "", params |-> p, selected |-> ""]
Selected(c) == [kind |-> "selected", token |-> "", params |-> NoParams, selected |-> c]

Patches == {[k \in {"keyword"} |-> "B"],
            [k \in ArgKeys |-> "B"]}

\* "queren" and "quxiao" stand for the strings "\u786e\u8ba4" (confirm) and
\* "\u53d6\u6d88" (cancel) of navigation_agent_v2.py:462-465
ResumeValues == {Token("queren"), Token("cancel"), Token("quxiao")}
                \cup {Patch(p) : p \in Patches}
                \cup {Selected("c2")}

(***************************************************************************)
(* State.                                                                  *)
(***************************************************************************)
VARIABLES
    messages,           \* AgentState.messages (operator.add reducer)
    iteration_count,    \* AgentState.iteration_count
    total_tool_calls,   \* AgentState.total_tool_calls
    decision,           \* AgentState.decision
    action_results,     \* AgentState.action_results
    next,               \* checkpoint: the node to run next ("END": none)
    interrupts,         \* checkpoint: outstanding InterruptRequests
    resumes,            \* checkpoint: resume values of the suspended task
    require_selection,  \* hitl_config.require_selection of the deployment
    llm_profile,        \* which tool calls the LLM draws on in this run
    turn,               \* number of chat_stream calls so far
    invoked,            \* history: tool.ainvoke calls per tool_call_id
    last,               \* history: what the last step did
    gateLog,            \* history: HITL/invoke events of the action in hand
    workflow,           \* multi-agent workflow: next_agents and its rounds
    sse_client          \* SSEMCPClient: request ids, futures, calls, events

vars == <<messages, iteration_count, total_tool_calls, decision,
          action_results, next, interrupts, resumes, require_selection,
          llm_profile, turn, invoked, last, gateLog, workflow, sse_client>>

AllIds == IDS \cup {FallbackIds[i] : i \in DOMAIN FallbackIds}

need_selection(tool_name) == tool_name \in require_selection

(***************************************************************************)
(* Messages.                                                               *)
(***************************************************************************)
HumanMessage == [type |-> "human", content |-> <<"user">>,
                 tool_calls |-> <<>>, tool_call_id |-> ""]
AIMessage(content, tool_calls) ==
    [type |-> "ai", content |-> content,
     tool_calls |-> tool_calls, tool_call_id |-> ""]
ToolMessage(content, tool_call_id) ==
    [type |-> "tool", content |-> content,
     tool_calls |-> <<>>, tool_call_id |-> tool_call_id]

EmptyDecision == [actions |-> <<>>, response |-> <<>>, is_complete |-> FALSE]

NoStep == [step |-> "none"]

\* the multi-agent workflow before its first supervisor step
NoWorkflow == [stores_next_agents |-> FALSE, next_agents |-> <<>>, rounds |-> 0]

\* the SSEMCPClient as __init__ leaves it, with its listener task started
NoClient == [request_id |-> 0, pending_requests |-> <<>>, calls |-> <<>>,
             sse_task |-> "running"]

Init ==
    /\ messages = <<>>
    /\ iteration_count = 0
    /\ total_tool_calls = 0
    /\ decision = EmptyDecision
    /\ action_results = <<>>
    /\ next = "END"
    /\ interrupts = {}
    /\ resumes = <<>>
    /\ require_selection \in {{}, {"search_poi", "start_navigation"}}
    /\ llm_profile \in {"full", "plain"}
    /\ turn = 0
    /\ invoked = [i \in AllIds |-> 0]
    /\ last = NoStep
    /\ gateLog = <<>>
    /\ workflow = NoWorkflow
    /\ sse_client = NoClient


(***************************************************************************)
(* Helpers of execution_node and need_continue_after_execution.            *)
(***************************************************************************)
Max(S) == CHOOSE x \in S : \A y \in S : y <= x
Min(S) == CHOOSE x \in S : \A y \in S : x <= y

\* navigation_agent_v2.py:349
tool_call_id(tool_calls, i) ==
    IF i <= Len(tool_calls) THEN tool_calls[i].id ELSE FallbackIds[i]

\* mutant: the scan looks at no ToolMessage, so no id counts as executed
executed_tool_ids_none(msgs) == {}

\* navigation_agent_v2.py:332-335 and 716-719
executed_tool_ids(msgs) ==
    {msgs[j].tool_call_id : j \in {k \in DOMAIN msgs : msgs[k].type = "tool"}}

\* navigation_agent_v2.py:322-329 and 722-728
last_ai_tool_calls(msgs) ==
    LET ais == {k \in DOMAIN msgs : msgs[k].type = "ai"}
    IN  IF ais = {} THEN <<>> ELSE msgs[Max(ais)].tool_calls

(***************************************************************************)
(* History helpers (read by the properties only).                          *)
(***************************************************************************)
\* (name, args) of the tool calls that have a success ToolMessage: a
\* ToolMessage belongs to the last AIMessage before it
succeeded_signatures(msgs) ==
    {<<msgs[a].tool_calls[c].name, msgs[a].tool_calls[c].args>> :
        <<a, c>> \in {ac \in (DOMAIN msgs) \X (1..MaxActions) :
            /\ msgs[ac[1]].type = "ai"
            /\ ac[2] \in DOMAIN msgs[ac[1]].tool_calls
            /\ \E j \in DOMAIN msgs :
                 /\ j > ac[1]
                 /\ msgs[j].type = "tool"
                 /\ msgs[j].tool_call_id = msgs[ac[1]].tool_calls[ac[2]].id
                 /\ msgs[j].content[1] \in {"str", "json"}
                 /\ \A b \in (ac[1] + 1)..(j - 1) : msgs[b].type # "ai"}}

\* mutant: no action is taken for executed, the loop stops at the first one
first_unexecuted_no_skip(actions, tool_calls, msgs) ==
    IF actions = <<>> THEN 0 ELSE 1

\* mutant: duplicates are recognised by (name, args) of an earlier
\* successful call as well as by id
first_unexecuted_by_signature(actions, tool_calls, msgs) ==
    LET P == {i \in 1..Len(actions) :
                /\ tool_call_id(tool_calls, i) \notin executed_tool_ids(msgs)
                /\ <<actions[i].name, actions[i].args>>
                      \notin succeeded_signatures(msgs)}
    IN  IF P = {} THEN 0 ELSE Min(P)

\* mutant: the loop takes the last action without a ToolMessage
first_unexecuted_last(actions, tool_calls, msgs) ==
    LET P == {i \in 1..Len(actions) :
                 tool_call_id(tool_calls, i) \notin executed_tool_ids(msgs)}
    IN  IF P = {} THEN 0 ELSE Max(P)

\* the loop of navigation_agent_v2.py:331-358: the position of the first
\* action whose tool_call_id has no ToolMessage in msgs, 0 if there is none
first_unexecuted(actions, tool_calls, msgs) ==
    LET executed == executed_tool_ids(msgs)
        P == {i \in 1..Len(actions) : tool_call_id(tool_calls, i) \notin executed}
    IN  IF P = {} THEN 0 ELSE Min(P)

\* None or a blank string (navigation_agent_v2.py:423-426)
is_empty(param_value) == param_value = ""

missing_params(tool_name, tool_args) ==
    {p \in DOMAIN tool_args :
        is_empty(tool_args[p]) /\ get_missing_param_prompt(tool_name, p)}

\* dict.update (navigation_agent_v2.py:446)
Update(tool_args, params) ==
    [k \in (DOMAIN tool_args) \cup (DOMAIN params) |->
        IF k \in DOMAIN params THEN params[k] ELSE tool_args[k]]

Interrupt(type, tool_name, missing, args) ==
    [type |-> type, tool_name |-> tool_name,
     missing_params |-> missing, args |-> args]

NoInterrupt == Interrupt("none", "", {}, NoParams)

(***************************************************************************)
(* _check_hitl_requirements (navigation_agent_v2.py:411-471), run with the *)
(* resume values resv the checkpoint holds for this task: the n-th         *)
(* interrupt() of a pass returns resv[n] when there is one and otherwise   *)
(* raises GraphInterrupt, which suspends the run.                          *)
(*   status "interrupt": request is raised;  "cancelled";  "ok": args are  *)
(*   the (possibly patched) arguments and used the resume values consumed. *)
(***************************************************************************)
HitlInterrupt(request) ==
    [status |-> "interrupt", args |-> request.args, used |-> 0, request |-> request]
HitlCancelled(args, used) ==
    [status |-> "cancelled", args |-> args, used |-> used, request |-> NoInterrupt]
HitlOk(args, used) ==
    [status |-> "ok", args |-> args, used |-> used, request |-> NoInterrupt]

\* mutant: the high-risk registry is not consulted
confirmation_gate_skipped(tool_name, tool_args, resv, k) == HitlOk(tool_args, k)

\* checkpoint 2: high-risk confirmation (navigation_agent_v2.py:452-471)
confirmation_gate(tool_name, tool_args, resv, k) ==
    IF need_confirmation(tool_name)
    THEN IF Len(resv) <= k
         THEN HitlInterrupt(Interrupt("confirmation", tool_name, {}, tool_args))
         ELSE IF resv[k + 1] \in {Token("cancel"), Token("quxiao")}
              THEN HitlCancelled(tool_args, k + 1)
              ELSE HitlOk(tool_args, k + 1)
    ELSE HitlOk(tool_args, k)

\* mutant: the confirmation is asked for before the missing parameters
check_hitl_confirmation_first(tool_name, tool_args, resv) ==
    LET missing == missing_params(tool_name, tool_args)
        c == confirmation_gate(tool_name, tool_args, resv, 0)
    IN  IF c.status # "ok" \/ missing = {} THEN c
        ELSE IF Len(resv) <= c.used
        THEN HitlInterrupt(Interrupt("ask_params", tool_name, missing, tool_args))
        ELSE IF resv[c.used + 1].kind = "params"
        THEN HitlOk(Update(tool_args, resv[c.used + 1].params), c.used + 1)
        ELSE IF resv[c.used + 1] = Token("cancel")
        THEN HitlCancelled(tool_args, c.used + 1)
        ELSE HitlOk(tool_args, c.used + 1)

\* checkpoint 1: missing parameters, then checkpoint 2
check_hitl_requirements(tool_name, tool_args, resv) ==
    LET missing == missing_params(tool_name, tool_args)
    IN  IF missing # {}
        THEN IF Len(resv) = 0
             THEN HitlInterrupt(Interrupt("ask_params", tool_name, missing, tool_args))
             ELSE IF resv[1].kind = "params"
                  THEN confirmation_gate(tool_name,
                                         Update(tool_args, resv[1].params), resv, 1)
                  ELSE IF resv[1] = Token("cancel")
                       THEN HitlCancelled(tool_args, 1)
                       ELSE confirmation_gate(tool_name, tool_args, resv, 1)
        ELSE confirmation_gate(tool_name, tool_args, resv, 0)

(***************************************************************************)
(* _execute_tool_directly (navigation_agent_v2.py:473-547).  outcome is    *)
(* what tool.ainvoke does.  The selection interrupt() sits inside the      *)
(* try block whose handler is `except Exception`: GraphInterrupt is an     *)
(* Exception, so a raised selection interrupt is caught there and the      *)
(* action ends as an error Observation instead of suspending the run.      *)
(***************************************************************************)
\* _find_tool (navigation_agent_v2.py:549-567)
find_tool(tool_name) ==
    \/ tool_name \in tools
    \/ tool_name \in {"memory_save_user_profile", "memory_save_relationship"}

ToolRun(tool_name, status, payload, content, call_id, did_invoke, raised) ==
    [result |-> [tool |-> tool_name, status |-> status, payload |-> payload],
     message |-> ToolMessage(content, call_id),
     invoked |-> did_invoke, selection_raised |-> raised]

execute_tool_directly(tool_name, tool_args, call_id, resv, k, outcome) ==
    IF ~find_tool(tool_name)
    THEN ToolRun(tool_name, "error", <<"not_found">>, <<"not_found", tool_name>>,
                 call_id, FALSE, FALSE)
    ELSE IF outcome = "raise"
    THEN ToolRun(tool_name, "error", <<"exception">>, <<"failed", "exception">>,
                 call_id, TRUE, FALSE)
    ELSE IF is_candidate_list(outcome) /\ need_selection(tool_name)
    THEN IF Len(resv) <= k
         THEN ToolRun(tool_name, "error", <<"interrupt">>, <<"failed", "interrupt">>,
                      call_id, TRUE, TRUE)
         ELSE IF resv[k + 1].kind = "selected"
              THEN ToolRun(tool_name, "success", <<"json", resv[k + 1].selected>>,
                           <<"json", resv[k + 1].selected>>, call_id, TRUE, FALSE)
              ELSE ToolRun(tool_name, "success", <<"str", outcome>>,
                           <<"str", outcome>>, call_id, TRUE, FALSE)
    ELSE ToolRun(tool_name, "success", <<"str", outcome>>, <<"str", outcome>>,
                 call_id, TRUE, FALSE)

(***************************************************************************)
(* execution_node (navigation_agent_v2.py:295-409): one pass.  It returns  *)
(* the state update of the node, or the interrupt that suspends it.        *)
(***************************************************************************)
NoAction == [name |-> "", args |-> NoParams]
NoRun == ToolRun("", "none", <<>>, <<>>, "", FALSE, FALSE)

ExecReturn(kind, i, action, id, hitl, run, results, msgs, total) ==
    [kind |-> kind, index |-> i, action |-> action, id |-> id, hitl |-> hitl,
     run |-> run, action_results |-> results, messages |-> msgs,
     total_tool_calls |-> total]

\* mutant: one pass runs every action that has no ToolMessage (and asks
\* the user nothing) before it returns
execution_node_batch(dec, msgs, total, resv, outcome) ==
    LET actions == dec.actions
        tool_calls == last_ai_tool_calls(msgs)
        i == first_unexecuted(actions, tool_calls, msgs)
        todo == SelectSeq([j \in DOMAIN actions |-> j],
                    LAMBDA j : tool_call_id(tool_calls, j)
                                  \notin executed_tool_ids(msgs))
        run(j) == execute_tool_directly(actions[j].name, actions[j].args,
                      tool_call_id(tool_calls, j), resv, 0, outcome)
    IN  IF actions = <<>> \/ i = 0
        THEN ExecReturn("all_executed", 0, NoAction, "", HitlOk(NoParams, 0), NoRun,
                        <<>>, <<>>, total)
        ELSE ExecReturn("executed", i, actions[i], tool_call_id(tool_calls, i),
                        HitlOk(actions[i].args, 0), run(i),
                        [k \in DOMAIN todo |-> run(todo[k]).result],
                        [k \in DOMAIN todo |-> run(todo[k]).message],
                        total + Len(todo))

execution_node(dec, msgs, total, resv, outcome) ==
    LET actions == dec.actions
        tool_calls == last_ai_tool_calls(msgs)
        i == first_unexecuted(actions, tool_calls, msgs)
    IN  IF actions = <<>>
        THEN ExecReturn("empty", 0, NoAction, "", HitlOk(NoParams, 0), NoRun,
                        <<>>, <<>>, total)
        ELSE IF i = 0
        THEN ExecReturn("all_executed", 0, NoAction, "", HitlOk(NoParams, 0), NoRun,
                        <<>>, <<>>, total)
        ELSE
        LET action == actions[i]
            id == tool_call_id(tool_calls, i)
            h == check_hitl_requirements(action.name, action.args, resv)
        IN  IF h.status = "interrupt"
            THEN ExecReturn("interrupt", i, action, id, h, NoRun, <<>>, <<>>, total)
            ELSE IF h.status = "cancelled"
            THEN ExecReturn("cancelled", i, action, id, h, NoRun,
                     <<[tool |-> action.name, status |-> "cancelled",
                        payload |-> <<"user_cancelled">>]>>,
                     <<ToolMessage(<<"user_cancelled">>, id)>>, total)
            ELSE
            LET r == execute_tool_directly(action.name, h.args, id, resv,
                                           h.used, outcome)
            IN  ExecReturn("executed", i, action, id, h, r,
                     <<r.result>>, <<r.message>>,
                     IF r.result.status \in {"success", "error"}
                     THEN total + 1 ELSE total)

(***************************************************************************)
(* Conditional edges.                                                      *)
(***************************************************************************)
\* mutant: the edge looks at the actions only, not at is_complete or the cap
should_continue_actions_only(dec, total) ==
    IF dec.actions # <<>> THEN "execution" ELSE "response"

\* navigation_agent_v2.py:663-691
should_continue(dec, total) ==
    IF total >= MAX_TOTAL_TOOL_CALLS THEN "response"
    ELSE IF dec.is_complete THEN "response"
    ELSE IF dec.actions # <<>> THEN "execution"
    ELSE "response"

\* mutant: the edge after execution always returns to execution
need_continue_stay_in_execution(iteration, dec, msgs) == "execution"

\* mutant: the edge after execution always returns to the Reasoner
need_continue_back_to_agent(iteration, dec, msgs) == "agent"

\* mutant: a failed tool ends the run
need_continue_error_ends_run(iteration, dec, msgs) ==
    IF msgs # <<>> /\ msgs[Len(msgs)].type = "tool"
       /\ msgs[Len(msgs)].content[1] \in {"not_found", "failed"}
    THEN "response" ELSE "agent"

\* mutant: a cancelled action ends the run
need_continue_cancel_ends_run(iteration, dec, msgs) ==
    IF msgs # <<>> /\ msgs[Len(msgs)].content = <<"user_cancelled">>
    THEN "response" ELSE "agent"

\* navigation_agent_v2.py:693-739
need_continue_after_execution(iteration, dec, msgs) ==
    IF iteration >= MAX_ITERATIONS THEN "response"
    ELSE IF dec.actions # <<>>
            /\ LET tool_calls == last_ai_tool_calls(msgs)
                   total_tool_call_ids ==
                       {tool_calls[j].id : j \in DOMAIN tool_calls}
               IN  total_tool_call_ids \ executed_tool_ids(msgs) # {}
         THEN "execution"
         ELSE "agent"

(***************************************************************************)
(* agent_node and _build_decision (navigation_agent_v2.py:77-202, 246-291) *)
(***************************************************************************)
\* The tool calls of one LLM answer.  The LLM leaves empty at most the
\* argument the tool has a prompt for.  Ids are distinct within an answer;
\* an id is one used before in the conversation or the next unused one.
ToolCalls(profile) ==
    {c \in [name : ToolNames, args : LLMArgs, id : IDS] :
        /\ \A k \in ArgKeys :
               c.args[k] = "" => get_missing_param_prompt(c.name, k)
        /\ profile = "plain" =>
               c.name \in tools /\ \A k \in ArgKeys : c.args[k] # ""}

CallBudget(profile) == IF profile = "plain" THEN MaxPlainCalls ELSE MaxCalls

used_ids(msgs) ==
    UNION {{msgs[a].tool_calls[c].id : c \in DOMAIN msgs[a].tool_calls} :
              a \in {k \in DOMAIN msgs : msgs[k].type = "ai"}}

RECURSIVE SumLen(_, _)
SumLen(msgs, j) ==
    IF j = 0 THEN 0 ELSE Len(msgs[j].tool_calls) + SumLen(msgs, j - 1)
emitted_calls(msgs) == SumLen(msgs, Len(msgs))

ToolCallSeqs(msgs, profile) ==
    LET used == used_ids(msgs)
        n == Cardinality(used)
        fresh_before(tcs, j) ==
            Cardinality({i \in 1..(j - 1) : tcs[i].id \notin used})
    IN  {tcs \in UNION {[1..m -> ToolCalls(profile)] : m \in 0..MaxActions} :
            /\ emitted_calls(msgs) + Len(tcs) <= CallBudget(profile)
            /\ \A i, j \in DOMAIN tcs : i # j => tcs[i].id # tcs[j].id
            /\ \A j \in DOMAIN tcs :
                   tcs[j].id \in used
                   \/ tcs[j].id = IdSeq[n + fresh_before(tcs, j) + 1]}

\* mutant: a Decision with actions is never marked complete
build_decision_cap_ignored(content, tool_calls, iteration) ==
    LET actions == [j \in DOMAIN tool_calls |->
                       [name |-> tool_calls[j].name, args |-> tool_calls[j].args]]
    IN  [actions |-> actions,
         response |-> content,
         is_complete |-> actions = <<>>]

build_decision(content, tool_calls, iteration) ==
    LET actions == [j \in DOMAIN tool_calls |->
                       [name |-> tool_calls[j].name, args |-> tool_calls[j].args]]
    IN  [actions |-> actions,
         response |-> content,
         is_complete |-> IF actions = <<>> THEN TRUE
                         ELSE iteration >= MAX_ITERATIONS]

\* mutant: the synthesized Decision is not marked complete
FailedDecision_incomplete ==
    [actions |-> <<>>, response |-> <<"sorry">>, is_complete |-> FALSE]

\* the Decision synthesized when the LLM call raises (lines 150-161)
FailedDecision ==
    [actions |-> <<>>, response |-> <<"sorry">>, is_complete |-> TRUE]

(***************************************************************************)
(* response_node (navigation_agent_v2.py:571-659): the final text.         *)
(***************************************************************************)
SILENT_TOOLS == {"memory_save_location", "memory_save_preference",
                 "memory_save_user_profile", "memory_save_relationship"}

\* mutant: no tool is silent
final_response_all_visible(dec, results, iteration, total) ==
    IF iteration >= MAX_ITERATIONS THEN [kind |-> "max_iterations",
                                         base |-> <<>>, summary |-> <<>>]
    ELSE IF total >= MAX_TOTAL_TOOL_CALLS THEN [kind |-> "max_tool_calls",
                                                base |-> <<>>, summary |-> <<>>]
    ELSE [kind |-> "normal", base |-> dec.response,
          summary |-> [j \in DOMAIN results |->
                         <<results[j].tool, results[j].status = "success">>]]

final_response(dec, results, iteration, total) ==
    IF iteration >= MAX_ITERATIONS THEN [kind |-> "max_iterations",
                                         base |-> <<>>, summary |-> <<>>]
    ELSE IF total >= MAX_TOTAL_TOOL_CALLS THEN [kind |-> "max_tool_calls",
                                                base |-> <<>>, summary |-> <<>>]
    ELSE LET visible(r) == r.tool \notin SILENT_TOOLS
         IN  [kind |-> "normal", base |-> dec.response,
              summary |-> [j \in DOMAIN SelectSeq(results, visible) |->
                             <<SelectSeq(results, visible)[j].tool,
                               SelectSeq(results, visible)[j].status = "success">>]]

(***************************************************************************)
(* Actions.                                                                *)
(***************************************************************************)
\* mutant: a node runs although an interrupt is outstanding
runnable_while_interrupted(node, nxt, outstanding) == nxt = node

\* The graph runs node only when the checkpoint names it as the next node
\* and no interrupt is outstanding: after an interrupt the stream ends and
\* the caller returns, waiting for resume (chat.py:441-461, 684-701)
runnable(node, nxt, outstanding) == nxt = node /\ outstanding = {}

\* chat_stream / chat (chat.py:279-313, 175-184): a new user turn on the
\* thread.  The input is written over the checkpoint: messages is appended
\* to, the two counters are overwritten with 0, decision and action_results
\* keep their checkpointed values.  A run that was suspended on an interrupt
\* is dropped by the new input and the graph starts again at its entry node.
ChatStream ==
    /\ turn < MaxTurns
    /\ next = "END" \/ interrupts # {}
    /\ messages' = Append(messages, HumanMessage)
    /\ iteration_count' = 0
    /\ total_tool_calls' = 0
    /\ next' = "agent"
    /\ interrupts' = {}
    /\ resumes' = <<>>
    /\ turn' = turn + 1
    /\ last' = [step |-> "chat_stream", dropped |-> interrupts]
    /\ UNCHANGED <<decision, action_results, require_selection, llm_profile,
                   invoked, gateLog>>
    /\ UNCHANGED <<workflow, sse_client>>

\* agent_node, then the edge should_continue
AgentNode ==
    /\ runnable("agent", next, interrupts)
    /\ LET iteration == iteration_count + 1
       IN  \/ \* the LLM call raises
              /\ decision' = FailedDecision
              /\ messages' = Append(messages, AIMessage(<<"sorry">>, <<>>))
              /\ last' = [step |-> "agent", failed |-> TRUE]
           \/ \E tool_calls \in ToolCallSeqs(messages, llm_profile) :
              /\ decision' = build_decision(<<"draft">>, tool_calls, iteration)
              /\ messages' = Append(messages, AIMessage(<<"draft">>, tool_calls))
              /\ last' = [step |-> "agent", failed |-> FALSE]
    /\ iteration_count' = iteration_count + 1
    /\ next' = should_continue(decision', total_tool_calls)
    /\ UNCHANGED <<total_tool_calls, action_results, interrupts, resumes,
                   require_selection, llm_profile, turn, invoked, gateLog>>
    /\ UNCHANGED <<workflow, sse_client>>

\* execution_node, then the edge need_continue_after_execution; or the
\* interrupt that suspends the run inside the node
ExecutionNode ==
    /\ runnable("execution", next, interrupts)
    /\ \E outcome \in ToolOutcomes :
        \E r \in {execution_node(decision, messages, total_tool_calls,
                                 resumes, outcome)} :
        LET log == IF resumes = <<>> THEN <<>> ELSE gateLog
        IN  /\ last' = [step |-> "execution", pass |-> r,
                        resumes |-> resumes,
                        len_before |-> Len(messages),
                        executed_before |-> executed_tool_ids(messages),
                        succeeded_before |-> succeeded_signatures(messages),
                        total_before |-> total_tool_calls,
                        invoked_before |-> invoked]
            /\ IF r.kind = "interrupt"
               THEN /\ interrupts' = interrupts \cup {r.hitl.request}
                    /\ gateLog' = Append(log, <<r.hitl.request.type, "raised">>)
                    /\ UNCHANGED <<messages, total_tool_calls, action_results,
                                   next, resumes, invoked>>
               ELSE /\ messages' = messages \o r.messages
                    /\ action_results' = r.action_results
                    /\ total_tool_calls' = r.total_tool_calls
                    /\ next' = need_continue_after_execution(
                                   iteration_count, decision, messages')
                    /\ resumes' = <<>>
                    /\ invoked' = IF r.run.invoked
                                  THEN [invoked EXCEPT ![r.id] = @ + 1]
                                  ELSE invoked
                    /\ gateLog' =
                         IF r.kind # "executed" THEN log
                         ELSE log
                              \o (IF r.run.invoked THEN <<<<"tool", "invoked">>>>
                                  ELSE <<>>)
                              \o (IF r.run.selection_raised
                                  THEN <<<<"selection", "raised">>>> ELSE <<>>)
                    /\ UNCHANGED interrupts
    /\ UNCHANGED <<iteration_count, decision, require_selection, llm_profile, turn>>
    /\ UNCHANGED <<workflow, sse_client>>

\* resume_chat (chat.py:505-580): Command(resume=value) hands the value to
\* the suspended task, which is run again from the start of its node
ResumeChat ==
    /\ interrupts # {}
    /\ \E value \in ResumeValues :
        /\ resumes' = Append(resumes, value)
        /\ last' = [step |-> "resume", value |-> value]
    /\ gateLog' = gateLog \o
           [j \in 1..1 |-> <<(CHOOSE q \in interrupts : TRUE).type, "resumed">>]
    /\ interrupts' = {}
    /\ UNCHANGED <<messages, iteration_count, total_tool_calls, decision,
                   action_results, next, require_selection, llm_profile, turn, invoked>>
    /\ UNCHANGED <<workflow, sse_client>>

\* response_node, then END
ResponseNode ==
    /\ runnable("response", next, interrupts)
    /\ LET final == final_response(decision, action_results,
                                   iteration_count, total_tool_calls)
       IN  /\ messages' = Append(messages, AIMessage(<<"final", final>>, <<>>))
           /\ last' = [step |-> "response", final |-> final]
    /\ next' = "END"
    /\ UNCHANGED <<iteration_count, total_tool_calls, decision, action_results,
                   interrupts, resumes, require_selection, llm_profile, turn, invoked, gateLog>>
    /\ UNCHANGED <<workflow, sse_client>>

Next ==
    \/ ChatStream
    \/ AgentNode
    \/ ExecutionNode
    \/ ResumeChat
    \/ ResponseNode

Spec == Init /\ [][Next]_vars

TypeOK ==
    /\ iteration_count \in 0..MAX_ITERATIONS
    /\ total_tool_calls \in Nat
    /\ next \in {"agent", "execution", "response", "END"}
    /\ turn \in 0..MaxTurns

(***************************************************************************)
(* Properties.                                                             *)
(***************************************************************************)
ExecutionStep == last.step = "execution"
\* the last step was an execution pass that called tool.ainvoke
ToolInvoked == ExecutionStep /\ last.pass.run.invoked

\* C1: total_tool_calls never exceeds MAX_TOTAL_TOOL_CALLS, and no tool is
\* invoked in a turn once total_tool_calls has reached the cap (also when
\* the execution node loops back to itself for a pending action).
C1_ToolCallCap ==
    /\ total_tool_calls <= MAX_TOTAL_TOOL_CALLS
    /\ ToolInvoked => last.total_before < MAX_TOTAL_TOOL_CALLS

\* C2: over the whole conversation (execution passes, suspensions, resumes,
\* new turns) tool.ainvoke runs at most once for every tool_call_id.
C2_InvokedAtMostOnce == \A id \in AllIds : invoked[id] <= 1

\* C2 witness: a pass re-entered execution_node after the first action of
\* the Decision, a confirmation-gated one, was suspended, resumed and
\* invoked: that action is met again and its tool has run exactly once.
C2_Witness ==
    /\ ExecutionStep
    /\ last.pass.index = 2
    /\ need_confirmation(decision.actions[1].name)
    /\ invoked[tool_call_id(last_ai_tool_calls(messages), 1)] = 1

\* C3: every Decision in the state (built by _build_decision or synthesized
\* on an LLM failure) with is_complete true has no actions.
C3_DecisionShape == decision.is_complete => decision.actions = <<>>

(***************************************************************************)
(* The HITL gates: gateLog holds, for the action in hand, the interrupts   *)
(* raised, the resumes supplied and the tool invocation, in order.         *)
(***************************************************************************)
InLog(e) == \E i \in DOMAIN gateLog : gateLog[i] = e
Before(e1, e2) ==
    \E i, j \in DOMAIN gateLog : i < j /\ gateLog[i] = e1 /\ gateLog[j] = e2

\* the last step was a pass that ran with "cancel" as the resume value of
\* the confirmation interrupt
ConfirmationCancelled ==
    /\ ExecutionStep
    /\ Len(last.resumes) >= 1
    /\ last.resumes[Len(last.resumes)] = Token("cancel")
    /\ InLog(<<"confirmation", "resumed">>)

\* C4: a tool on the require_confirmation registry is invoked only after a
\* confirmation interrupt for the action was raised and then resumed; a
\* resume with cancel gives one Observation with status cancelled, invokes
\* no tool and leaves total_tool_calls unchanged.
C4_ConfirmationGate ==
    /\ (ToolInvoked /\ need_confirmation(last.pass.action.name)) =>
          /\ Before(<<"confirmation", "raised">>, <<"confirmation", "resumed">>)
          /\ Before(<<"confirmation", "resumed">>, <<"tool", "invoked">>)
    /\ ConfirmationCancelled =>
          /\ last.pass.kind = "cancelled"
          /\ Len(action_results) = 1
          /\ action_results[1].status = "cancelled"
          /\ action_results[1].tool = last.pass.action.name
          /\ invoked = last.invoked_before
          /\ total_tool_calls = last.total_before

\* C4 witness: a confirmation interrupt was resumed with cancel and the
\* pass ended the action as cancelled.
C4_Witness == ConfirmationCancelled /\ last.pass.kind = "cancelled"

\* C5: when an ask_params interrupt is resumed with a parameter patch, only
\* the parameters reported missing are written: every other argument of the
\* action keeps the value it had.
C5_PatchOnlyMissing ==
    (/\ ExecutionStep
     /\ last.pass.index > 0
     /\ missing_params(last.pass.action.name, last.pass.action.args) # {}
     /\ Len(last.resumes) >= 1
     /\ last.resumes[1].kind = "params")
    => /\ DOMAIN last.pass.hitl.args = DOMAIN last.pass.action.args
       /\ \A k \in DOMAIN last.pass.action.args :
             k \notin missing_params(last.pass.action.name, last.pass.action.args)
             => last.pass.hitl.args[k] = last.pass.action.args[k]

\* C6: for one action the gates run in a fixed order: ask_params is raised
\* and resumed before the confirmation is raised, both are resumed before
\* the tool is invoked, and the selection interrupt is raised only after
\* the tool was invoked; an invoked tool has passed the gates it needs.
C6_GateOrder ==
    /\ \A i, j \in DOMAIN gateLog : i < j =>
          /\ ~(gateLog[i][1] = "confirmation" /\ gateLog[j][1] = "ask_params")
          /\ ~(gateLog[i][1] \in {"tool", "selection"}
               /\ gateLog[j][1] \in {"ask_params", "confirmation"})
          /\ ~(gateLog[i][1] = "selection" /\ gateLog[j][1] = "tool")
    /\ (InLog(<<"confirmation", "raised">>) /\ InLog(<<"ask_params", "raised">>))
          => Before(<<"ask_params", "resumed">>, <<"confirmation", "raised">>)
    /\ InLog(<<"selection", "raised">>)
          => Before(<<"tool", "invoked">>, <<"selection", "raised">>)
    /\ ToolInvoked =>
          /\ missing_params(last.pass.action.name, last.pass.action.args) # {}
                => /\ Before(<<"ask_params", "raised">>, <<"ask_params", "resumed">>)
                   /\ Before(<<"ask_params", "resumed">>, <<"tool", "invoked">>)
          /\ need_confirmation(last.pass.action.name)
                => Before(<<"confirmation", "resumed">>, <<"tool", "invoked">>)

\* C6 witness: one action went through all three gates in that order.
C6_Witness ==
    gateLog = << <<"ask_params", "raised">>, <<"ask_params", "resumed">>,
                 <<"confirmation", "raised">>, <<"confirmation", "resumed">>,
                 <<"tool", "invoked">>, <<"selection", "raised">> >>

\* C7: at most one InterruptRequest is outstanding, and while one is
\* outstanding no step invokes a tool, records a ToolMessage, or raises an
\* interrupt of a later action: the only steps are the resume and a new
\* user message.
C7_SingleInterrupt ==
    [][ /\ Cardinality(interrupts') <= 1
        /\ interrupts # {} =>
              /\ invoked' = invoked
              /\ interrupts' \subseteq interrupts
              /\ action_results' = action_results
              /\ \A j \in (DOMAIN messages') \ (DOMAIN messages) :
                    messages'[j].type = "human"
              /\ \/ gateLog' = gateLog
                 \/ /\ Len(gateLog') = Len(gateLog) + 1
                    /\ gateLog'[Len(gateLog')][2] = "resumed" ]_vars

\* C7 witness: an interrupt is outstanding for the first action of a
\* Decision that has a second action.
C7_Witness ==
    /\ interrupts # {}
    /\ ExecutionStep
    /\ last.pass.index = 1
    /\ Len(decision.actions) = 2

\* C8: while an InterruptRequest is outstanding, a new turn on the
\* conversation (chat_stream) is rejected: the suspended action and its
\* interrupt stay as they were.
C8_NewTurnRejected ==
    [][ (interrupts # {} /\ turn' = turn + 1) =>
           /\ interrupts' = interrupts
           /\ resumes' = resumes
           /\ next' = next
           /\ messages' = messages ]_vars

\* C9: actions whose tool_call_id already has a ToolMessage are skipped
\* silently: the pass appends no message for such an id, invokes no tool
\* for it, and when every action is skipped the pass leaves an empty
\* action_results and total_tool_calls as it was.
C9_SilentSkip ==
    ExecutionStep =>
       /\ \A j \in (last.len_before + 1)..Len(messages) :
             messages[j].tool_call_id \notin last.executed_before
       /\ \A id \in last.executed_before : invoked[id] = last.invoked_before[id]
       /\ last.pass.index > 0 => last.pass.id \notin last.executed_before
       /\ last.pass.kind = "all_executed" =>
             /\ Len(messages) = last.len_before
             /\ action_results = <<>>
             /\ total_tool_calls = last.total_before
             /\ invoked = last.invoked_before

\* C9 witness: a pass met only actions that already had a ToolMessage.
C9_Witness ==
    /\ ExecutionStep
    /\ last.pass.kind = "all_executed"
    /\ last.executed_before # {}

\* C10 (as claimed): an action with the tool name and args of an earlier
\* successful call is treated as a duplicate: no tool is invoked for it and
\* total_tool_calls stays as it was.
C10_SignatureDedup ==
    (/\ ExecutionStep
     /\ iteration_count = 2
     /\ last.pass.index > 0
     /\ <<last.pass.action.name, last.pass.action.args>> \in last.succeeded_before)
    => /\ ~last.pass.run.invoked
       /\ total_tool_calls = last.total_before

\* C10 (amended): duplicates are recognised by tool_call_id only.  A pass
\* takes the first action whose tool_call_id has no ToolMessage, whatever
\* its name and args; when that action repeats the name and args of an
\* earlier successful call under a new id, its tool is invoked again and
\* total_tool_calls grows by one.
C10_DedupByCallId ==
    ExecutionStep =>
       LET tool_calls == last_ai_tool_calls(SubSeq(messages, 1, last.len_before))
           pending == {i \in DOMAIN decision.actions :
                          tool_call_id(tool_calls, i) \notin last.executed_before}
       IN  /\ last.pass.index = (IF pending = {} THEN 0 ELSE Min(pending))
           /\ (/\ last.pass.kind = "executed"
               /\ find_tool(last.pass.action.name)
               /\ <<last.pass.action.name, last.pass.action.args>>
                     \in last.succeeded_before)
              => /\ last.pass.run.invoked
                 /\ invoked[last.pass.id] = last.invoked_before[last.pass.id] + 1
                 /\ total_tool_calls = last.total_before + 1

\* C10 witness: the second reasoning round of a turn repeated the name and
\* args of the first round's successful call and the tool ran again.
C10_Witness ==
    /\ ToolInvoked
    /\ iteration_count = 2
    /\ <<last.pass.action.name, last.pass.action.args>> \in last.succeeded_before
    /\ total_tool_calls = 2

(***************************************************************************)
(* Counters and budgets.                                                   *)
(***************************************************************************)
ResponseStep == last.step = "response"

\* C11: total_tool_calls grows by one exactly when a pass really invoked a
\* tool: a pass that skips duplicates, ends in a cancellation or meets a
\* tool that does not exist leaves it as it was.
C11_CountsInvocations ==
    ExecutionStep =>
       total_tool_calls =
           last.total_before + (IF last.pass.run.invoked THEN 1 ELSE 0)

\* C12: iteration_count grows by one in a Reasoner invocation that yields
\* at least one action and is left alone by a Reasoner invocation that
\* yields no action, by an execution pass and by a resume.
C12_IterationCount ==
    [][ /\ (next = "agent" /\ interrupts = {}) =>
              iteration_count' = iteration_count
                                 + (IF decision'.actions # <<>> THEN 1 ELSE 0)
        /\ (turn' = turn /\ (next = "execution" \/ interrupts # {})) =>
              iteration_count' = iteration_count ]_vars

\* C13: the Reasoner runs at most MAX_ITERATIONS times in a turn; after
\* its MAX_ITERATIONS-th round the run goes to the response node without
\* executing anything more, no tool is invoked in that round, and the
\* final message is the fixed max-iterations message.
C13_MaxIterations ==
    /\ iteration_count <= MAX_ITERATIONS
    /\ iteration_count = MAX_ITERATIONS =>
          /\ next \in {"response", "END"}
          /\ interrupts = {}
    /\ ToolInvoked => iteration_count < MAX_ITERATIONS
    /\ (ResponseStep /\ iteration_count = MAX_ITERATIONS) =>
          last.final.kind = "max_iterations"

\* C13 witness: every round asked for one new action, the last round's
\* action was not executed and the turn ended with the fixed message.
C13_Witness ==
    /\ ResponseStep
    /\ iteration_count = MAX_ITERATIONS
    /\ Len(decision.actions) = 1
    /\ total_tool_calls = MAX_ITERATIONS - 1
    /\ last.final.kind = "max_iterations"

\* C14: a turn whose Reasoner finished by itself (it answered with a
\* Decision without actions) while the tool-call cap was not reached is
\* answered from the Decision's draft response and not with a fixed budget
\* message, also when that round was the MAX_ITERATIONS-th.
C14_DraftWhenFinished ==
    (/\ ResponseStep
     /\ decision.actions = <<>>
     /\ decision.response = <<"draft">>
     /\ total_tool_calls < MAX_TOTAL_TOOL_CALLS) =>
       /\ last.final.kind = "normal"
       /\ last.final.base = decision.response

\* C15: when total_tool_calls has reached its cap and iteration_count has
\* reached MAX_ITERATIONS, the termination message names the tool-call cap.
C15_ToolCapNamedFirst ==
    (/\ ResponseStep
     /\ total_tool_calls >= MAX_TOTAL_TOOL_CALLS
     /\ iteration_count >= MAX_ITERATIONS)
    => last.final.kind = "max_tool_calls"

(***************************************************************************)
(* Failures, cancellation and the order of the actions of a Decision.      *)
(***************************************************************************)
\* positions of the current Decision whose tool_call_id has no ToolMessage
PendingActions ==
    {j \in DOMAIN decision.actions :
        tool_call_id(last_ai_tool_calls(messages), j)
            \notin executed_tool_ids(messages)}

\* the message the last execution pass appended is the ToolMessage of the
\* action it took
RecordedForAction ==
    /\ Len(messages) = last.len_before + 1
    /\ messages[Len(messages)].type = "tool"
    /\ messages[Len(messages)].tool_call_id = last.pass.id

\* the run goes on after the pass: to the remaining actions of the
\* Decision when there are some, to the Reasoner otherwise
RunContinues ==
    next = (IF PendingActions # {} THEN "execution" ELSE "agent")

\* the last pass ran an action whose tool was not found or raised
ToolFailed ==
    /\ ExecutionStep
    /\ last.pass.kind = "executed"
    /\ last.pass.run.result.status = "error"
    /\ last.pass.run.result.payload \in {<<"not_found">>, <<"exception">>}

\* C16: a tool that is not found or that raises ends as one Observation
\* with status error and one ToolMessage for its call id, and the run
\* continues with the remaining actions and then the Reasoner.
C16_ErrorIsObservation ==
    ToolFailed =>
       /\ Len(action_results) = 1
       /\ action_results[1].status = "error"
       /\ action_results[1].tool = last.pass.action.name
       /\ RecordedForAction
       /\ RunContinues

\* C16 witness: the first of two actions raised and the second is next.
C16_Witness ==
    /\ ToolFailed
    /\ last.pass.run.result.payload = <<"exception">>
    /\ last.pass.index = 1
    /\ PendingActions = {2}
    /\ next = "execution"

LLMFailed == last.step = "agent" /\ last.failed

\* C17: when the LLM call fails, agent_node returns a Decision that is
\* complete, has no actions and carries the apology, the run goes to the
\* response node, and after the response node the turn is over (the
\* Reasoner is not run again in it).
C17_LLMFailure ==
    /\ LLMFailed =>
          /\ decision.is_complete
          /\ decision.actions = <<>>
          /\ decision.response = <<"sorry">>
          /\ messages[Len(messages)] = AIMessage(<<"sorry">>, <<>>)
          /\ next = "response"
          /\ interrupts = {}
    /\ ResponseStep => next = "END"

\* C17 witness: the LLM call failed in the second round of a turn.
C17_Witness == LLMFailed /\ iteration_count = 2 /\ total_tool_calls = 1

ActionCancelled == ExecutionStep /\ last.pass.kind = "cancelled"

\* C18: a cancel ends only the suspended action: its cancelled
\* Observation is recorded, then the remaining actions of the Decision are
\* processed and the Reasoner is invoked again; the run is not ended.
C18_CancelOnlyAction ==
    ActionCancelled =>
       /\ RecordedForAction
       /\ messages[Len(messages)].content = <<"user_cancelled">>
       /\ RunContinues

\* C18 witness: the first of two actions was cancelled, the second is next.
C18_Witness ==
    /\ ActionCancelled
    /\ last.pass.index = 1
    /\ PendingActions = {2}
    /\ next = "execution"

\* C19: one pass of execution_node completes at most one action: it
\* appends at most one ToolMessage and one Observation, invokes at most one
\* tool, and leaves every other pending action for a later pass.
C19_OneActionPerPass ==
    ExecutionStep =>
       /\ Len(messages) <= last.len_before + 1
       /\ Len(action_results) <= 1
       /\ total_tool_calls <= last.total_before + 1
       /\ \A id \in AllIds :
             invoked[id] # last.invoked_before[id] =>
                /\ id = last.pass.id
                /\ invoked[id] = last.invoked_before[id] + 1
       /\ executed_tool_ids(messages) \subseteq
             last.executed_before \cup {last.pass.id}

\* C19 witness: a pass executed the first of two pending actions and left
\* the second one pending.
C19_Witness ==
    /\ ToolInvoked
    /\ last.pass.index = 1
    /\ Len(decision.actions) = 2
    /\ PendingActions = {2}

\* C20: an action at position j is taken only when every action before it
\* has a ToolMessage, and an execution pass hands over to the Reasoner only
\* when every action of the Decision has one.
C20_InOrder ==
    /\ (ExecutionStep /\ last.pass.index > 0) =>
          \A i \in 1..(last.pass.index - 1) :
             tool_call_id(last_ai_tool_calls(
                 SubSeq(messages, 1, last.len_before)), i)
                \in last.executed_before
    /\ (ExecutionStep /\ next = "agent") => PendingActions = {}

\* C20 witness: the second action of a Decision was executed after the
\* first and the run went back to the Reasoner.
C20_Witness ==
    /\ ToolInvoked
    /\ last.pass.index = 2
    /\ invoked[tool_call_id(last_ai_tool_calls(messages), 1)] = 1
    /\ next = "agent"

(***************************************************************************)
(* The selection gate.                                                     *)
(***************************************************************************)
\* the last pass invoked a selection-required tool that returned a
\* candidate list, and interrupt() was called for the selection
SelectionRaised ==
    /\ ExecutionStep
    /\ last.pass.kind = "executed"
    /\ last.pass.run.selection_raised

\* C21: a selection interrupt suspends the run until it is resumed, and
\* the Observation and ToolMessage recorded for the action after a resume
\* with {selected: c} carry c: nothing is recorded for the action when the
\* interrupt is raised, and whatever is recorded for an action that asked
\* for a selection is the selected candidate.
C21_SelectedRecorded ==
    SelectionRaised =>
       /\ interrupts # {}
       /\ Len(messages) = last.len_before
       /\ \A j \in DOMAIN action_results :
             /\ action_results[j].status = "success"
             /\ action_results[j].payload[1] = "json"

(***************************************************************************)
(* response_node on its inputs.  The node reads decision, action_results   *)
(* and the two counters; SpecResponse starts it on every combination of    *)
(* them that a turn can leave, silent tools included: action_results is    *)
(* what the last execution pass returned (no Observation or one), and the  *)
(* counter values are those the agent node can leave.                      *)
(***************************************************************************)
\* tools whose Observations reach response_node: a visible one and two of
\* the silent set
ResponseTools == {"search_poi", "memory_save_location", "memory_save_user_profile"}

\* execution_node returns "action_results": [result] or []
MaxResults == 1

ResponseResults ==
    UNION {[1..n -> [tool : ResponseTools,
                     status : {"success", "error", "cancelled"},
                     payload : {<<>>}]] : n \in 0..MaxResults}

ResponseDecisions ==
    {[actions |-> a, response |-> r, is_complete |-> TRUE] :
        a \in {<<>>, <<[name |-> "search_poi", args |-> [k \in ArgKeys |-> "A"]]>>},
        r \in {<<"draft">>, <<"sorry">>}}

InitResponse ==
    /\ messages = <<HumanMessage>>
    /\ iteration_count \in 1..MAX_ITERATIONS
    /\ total_tool_calls \in 0..MAX_TOTAL_TOOL_CALLS
    /\ decision \in ResponseDecisions
    /\ action_results \in ResponseResults
    /\ next = "response"
    /\ interrupts = {}
    /\ resumes = <<>>
    /\ require_selection = {}
    /\ llm_profile = "plain"
    /\ turn = 1
    /\ invoked = [i \in AllIds |-> 0]
    /\ last = NoStep
    /\ gateLog = <<>>
    /\ workflow = NoWorkflow
    /\ sse_client = NoClient

NextResponse == ResponseNode

SpecResponse == InitResponse /\ [][NextResponse]_vars

\* C22: in a final text built from the draft response, no Observation of a
\* silent tool is in the summary, every Observation of another tool is, and
\* when all Observations are of silent tools the text is the draft alone.
C22_SilentHidden ==
    (ResponseStep /\ last.final.kind = "normal") =>
       LET shown == last.final.summary
           visible == {j \in DOMAIN action_results :
                          action_results[j].tool \notin SILENT_TOOLS}
       IN  /\ last.final.base = decision.response
           /\ \A j \in DOMAIN shown : shown[j][1] \notin SILENT_TOOLS
           /\ Len(shown) = Cardinality(visible)
           /\ visible = {} => shown = <<>>

\* C22 witness: the only Observation of the turn is of a silent tool and
\* the final text is the draft alone.
C22_Witness ==
    /\ ResponseStep
    /\ last.final.kind = "normal"
    /\ action_results # <<>>
    /\ \A j \in DOMAIN action_results : action_results[j].tool \in SILENT_TOOLS
    /\ last.final.summary = <<>>
    /\ last.final.base = decision.response

(***************************************************************************)
(* The run controller: the graph of create_graph and its suspension.       *)
(***************************************************************************)
\* where the run is: suspended on an interrupt, or at the next node
RunState == IF interrupts # {} THEN "suspended" ELSE next

\* C23: inside a turn the run only moves
\*   agent -> response   (no actions, or complete, or tool-call cap reached)
\*   agent -> execution  (actions present, otherwise)
\*   execution -> execution (an action of the Decision has no ToolMessage)
\*   execution -> agent     (none is pending)
\*   execution -> suspended (interrupt), suspended -> execution (resume)
\*   execution -> response  (iteration budget exhausted)
\*   response -> END, and END is left by no step of the turn.
C23_Transitions ==
    [][ turn' = turn =>
          \/ /\ RunState = "agent"
             /\ \/ /\ RunState' = "response"
                   /\ \/ decision'.actions = <<>>
                      \/ decision'.is_complete
                      \/ total_tool_calls >= MAX_TOTAL_TOOL_CALLS
                \/ /\ RunState' = "execution"
                   /\ decision'.actions # <<>>
                   /\ ~decision'.is_complete
                   /\ total_tool_calls < MAX_TOTAL_TOOL_CALLS
          \/ /\ RunState = "execution"
             /\ \/ RunState' = "suspended" /\ next' = "execution"
                \/ RunState' = "execution" /\ PendingActions' # {}
                \/ RunState' = "agent" /\ PendingActions' = {}
                \/ RunState' = "response" /\ iteration_count >= MAX_ITERATIONS
          \/ RunState = "suspended" /\ RunState' = "execution"
          \/ RunState = "response" /\ RunState' = "END" ]_vars

\* C23 witness: a run that was suspended and resumed executed its action
\* and went on to the next action of the Decision.
C23_Witness ==
    /\ ExecutionStep
    /\ last.resumes # <<>>
    /\ last.pass.kind = "executed"
    /\ RunState = "execution"

\* C24: a new user turn on a conversation that already had a turn enters at
\* the reasoning node with iteration_count and total_tool_calls as the
\* previous turn left them.
C24_CountersCarried ==
    [][ (turn' = turn + 1 /\ turn >= 1) =>
           /\ next' = "agent"
           /\ iteration_count' = iteration_count
           /\ total_tool_calls' = total_tool_calls ]_vars

(***************************************************************************)
(* The end of the event stream of chat_stream and resume_chat              *)
(* (chat.py:313-324 and 441-478, 575-586 and 684-706).  The handler relays *)
(* the graph's events until the graph stops or 120 s have passed (then it  *)
(* emits an error event and leaves the loop); after the loop it reads the  *)
(* thread's state: for an outstanding interrupt it emits the interrupt and *)
(* waiting_input events and returns, otherwise it emits done.  An          *)
(* exception while reading the state is swallowed and done is emitted.     *)
(***************************************************************************)
InterruptEvent(request) == [type |-> "interrupt", data |-> request]
\* its message is the request's message
WaitingInput(request) == [type |-> "waiting_input", data |-> request]
ErrorEvent == [type |-> "error", data |-> NoInterrupt]
DoneEvent == [type |-> "done", data |-> NoInterrupt]

\* mutant: done closes every stream
stream_tail_always_done(outstanding, timed_out, state_ok) ==
    (IF timed_out THEN <<ErrorEvent>> ELSE <<>>)
    \o (IF state_ok /\ outstanding # {}
        THEN LET q == CHOOSE q \in outstanding : TRUE
             IN  <<InterruptEvent(q), WaitingInput(q)>>
        ELSE <<>>)
    \o <<DoneEvent>>

stream_tail(outstanding, timed_out, state_ok) ==
    (IF timed_out THEN <<ErrorEvent>> ELSE <<>>)
    \o (IF state_ok /\ outstanding # {}
        THEN LET q == CHOOSE q \in outstanding : TRUE
             IN  <<InterruptEvent(q), WaitingInput(q)>>
        ELSE <<DoneEvent>>)

StreamEndStep(timed_out, state_ok) ==
    [step |-> "stream_end",
     tail |-> stream_tail(interrupts, timed_out, state_ok),
     finished |-> (next = "END" /\ interrupts = {}),
     outstanding |-> interrupts,
     timed_out |-> timed_out,
     state_ok |-> state_ok]

\* the graph stopped (it finished or it is suspended): the handler leaves
\* the event loop and closes the stream
StreamEnd ==
    /\ last.step \in {"execution", "response"}
    /\ interrupts # {} \/ next = "END"
    /\ \E state_ok \in BOOLEAN : last' = StreamEndStep(FALSE, state_ok)
    /\ UNCHANGED <<messages, iteration_count, total_tool_calls, decision,
                   action_results, next, interrupts, resumes,
                   require_selection, llm_profile, turn, invoked, gateLog>>
    /\ UNCHANGED <<workflow, sse_client>>

\* 120 s passed while the graph was still running: the handler leaves the
\* event loop and the run is abandoned where its checkpoint stands
StreamTimeout ==
    /\ last.step \in {"chat_stream", "resume", "agent", "execution"}
    /\ interrupts = {}
    /\ next \in {"agent", "execution", "response"}
    /\ \E state_ok \in BOOLEAN : last' = StreamEndStep(TRUE, state_ok)
    /\ UNCHANGED <<messages, iteration_count, total_tool_calls, decision,
                   action_results, next, interrupts, resumes,
                   require_selection, llm_profile, turn, invoked, gateLog>>
    /\ UNCHANGED <<workflow, sse_client>>

Abandoned == last.step = "stream_end" /\ last.timed_out

NextStream ==
    \/ ~Abandoned /\ Next
    \/ StreamEnd
    \/ StreamTimeout

SpecStream == Init /\ [][NextStream]_vars

StreamEnded == last.step = "stream_end"
HasDone(tail) == \E j \in DOMAIN tail : tail[j].type = "done"

InitLive == Init /\ require_selection = {}

SpecLive ==
    /\ InitLive
    /\ [][Next]_vars
    /\ WF_vars(AgentNode)
    /\ WF_vars(ExecutionNode)
    /\ WF_vars(ResponseNode)

Running == interrupts = {} /\ next \in {"agent", "execution", "response"}
TurnOver == interrupts = {} /\ next = "END"
Suspended == interrupts # {}

AgentConfig_MAX_ITERATIONS == 3
AgentConfig_MAX_TOOL_CALLS_PER_ITERATION == 2
AgentConfig_MAX_TOTAL_TOOL_CALLS == 3
\* tool calls in one answer of the V1 LLM, and in one V1 run
MaxPlan == 3
MaxPlanned == 4

\* an argument value that cannot be hashed (a JSON array)
Unhashable == {"[A]"}
\* args dicts of the LLM, as the sequence of their items in insertion order
ArgsKC == <<<<"keyword", "A">>, <<"city", "B">>>>
ArgsCK == <<<<"city", "B">>, <<"keyword", "A">>>>
ArgsK == <<<<"keyword", "A">>>>
ArgsList == <<<<"keyword", "[A]">>>>
PlannedCalls ==
    {[name |-> "search_poi", args |-> a] : a \in {ArgsKC, ArgsCK, ArgsK, ArgsList}}
    \cup {[name |-> "unknown_tool", args |-> <<>>]}
\* tools_map (navigation_agent.py:519)
tools_map == {"search_poi"}
\* what asyncio.wait_for(tool.ainvoke(args), timeout=30) does: time out,
\* raise, return a str, return another object
RunOutcomes == {"timeout", "raise", "str", "obj"}

\* the tool calls of one answer; ids are fresh, in the order of emission
Plans(msgs) ==
    LET n == emitted_calls(msgs)
    IN  UNION {{[j \in 1..m |-> [name |-> f[j].name, args |-> f[j].args,
                                 id |-> IdSeq[n + j]]] :
                   f \in [1..m -> PlannedCalls]} :
                  m \in 0..Min({MaxPlan, MaxPlanned - n})}

\* frozenset(args.items()) raises TypeError on an unhashable value
hashable(args) == \A j \in DOMAIN args : args[j][2] \notin Unhashable

\* mutant: the signature keeps the insertion order of the items
signature_ordered(call) == <<call.name, call.args>>

\* (tool_name, frozenset(args.items()))
signature(call) == <<call.name, {call.args[j] : j \in DOMAIN call.args}>>

\* the tool calls of the AIMessages of msgs, in order
RECURSIVE ai_tool_calls(_)
ai_tool_calls(msgs) ==
    IF msgs = <<>> THEN <<>>
    ELSE ai_tool_calls(SubSeq(msgs, 1, Len(msgs) - 1))
         \o (IF msgs[Len(msgs)].type = "ai"
             THEN msgs[Len(msgs)].tool_calls ELSE <<>>)

extract_historical_tool_calls(msgs) ==
    LET calls == ai_tool_calls(msgs)
    IN  {signature(calls[j]) : j \in DOMAIN calls}

\* list[:n]
Slice(calls, n) ==
    IF n >= 0 THEN SubSeq(calls, 1, Min({n, Len(calls)}))
    ELSE SubSeq(calls, 1, Max({Len(calls) + n, 0}))

\* mutant: no truncation
truncated_none(calls, total) == [tool_calls |-> calls, count |-> Len(calls)]

\* the two truncations of call_tools (navigation_agent.py:481-507): the
\* list that is left and current_tool_count
truncated(calls, total) ==
    LET over == Len(calls) > AgentConfig_MAX_TOOL_CALLS_PER_ITERATION
        c1 == IF over
              THEN Slice(calls, AgentConfig_MAX_TOOL_CALLS_PER_ITERATION)
              ELSE calls
        n1 == IF over THEN AgentConfig_MAX_TOOL_CALLS_PER_ITERATION
              ELSE Len(calls)
        remaining_calls == AgentConfig_MAX_TOTAL_TOOL_CALLS - total
    IN  IF total + n1 > AgentConfig_MAX_TOTAL_TOOL_CALLS
        THEN [tool_calls |-> Slice(c1, remaining_calls),
              count |-> remaining_calls]
        ELSE [tool_calls |-> c1, count |-> n1]

\* run_one: always a ToolMessage with the id of the call
run_one(call, outcome) ==
    IF call.name \notin tools_map
    THEN ToolMessage(<<"error", "unknown_tool">>, call.id)
    ELSE IF outcome = "timeout"
    THEN ToolMessage(<<"error", "timeout">>, call.id)
    ELSE IF outcome = "raise"
    THEN ToolMessage(<<"error", "failed">>, call.id)
    ELSE IF outcome = "str"
    THEN ToolMessage(<<"str">>, call.id)
    ELSE ToolMessage(<<"json">>, call.id)

\* the AIMessages of msgs with the tool calls that were answered only: what
\* a later round reads if the assignments to last_message.tool_calls
\* (navigation_agent.py:467, 494, 508) reached the stored message
as_executed(msgs) ==
    LET answered == {msgs[j].tool_call_id :
                        j \in {k \in DOMAIN msgs : msgs[k].type = "tool"}}
    IN  [j \in DOMAIN msgs |->
            IF msgs[j].type = "ai"
            THEN [msgs[j] EXCEPT !.tool_calls =
                     SelectSeq(@, LAMBDA c : c.id \in answered)]
            ELSE msgs[j]]

\* call_tools up to the tool runs: history is messages[:-1] as this round
\* reads it, planned the tool calls of the last message
call_tools(history, planned, total) ==
    LET all == ai_tool_calls(history) \o planned
        historical_calls == extract_historical_tool_calls(history)
        filtered_tool_calls ==
            SelectSeq(planned, LAMBDA c : signature(c) \notin historical_calls)
        t == truncated(filtered_tool_calls, total)
        ret(kind, executed, new_total) ==
            [kind |-> kind, planned |-> planned, filtered |-> filtered_tool_calls,
             executed |-> executed, total_tool_calls |-> new_total]
    IN  IF planned = <<>>
        THEN [kind |-> "no_tool_calls", planned |-> planned, filtered |-> <<>>,
              executed |-> <<>>, total_tool_calls |-> total]
        ELSE IF \E j \in DOMAIN all : ~hashable(all[j].args)
        THEN [kind |-> "TypeError", planned |-> planned, filtered |-> <<>>,
              executed |-> <<>>, total_tool_calls |-> total]
        ELSE IF filtered_tool_calls = <<>>
        THEN ret("all_duplicates", <<>>, total)
        ELSE IF t.count <= 0
        THEN ret("cap_reached", <<>>, total)
        ELSE ret("executed", t.tool_calls, total + t.count)

\* should_continue of NavigationAgent (navigation_agent.py:589-637)
v1_should_continue(iteration, total, tool_calls) ==
    IF iteration >= AgentConfig_MAX_ITERATIONS THEN "END"
    ELSE IF total >= AgentConfig_MAX_TOTAL_TOOL_CALLS THEN "END"
    ELSE IF tool_calls # <<>> THEN "action"
    ELSE "END"

InitV1 ==
    /\ messages = <<HumanMessage>>
    /\ iteration_count = 0
    /\ total_tool_calls = 0
    /\ decision = EmptyDecision
    /\ action_results = <<>>
    /\ next = "reasoning"
    /\ interrupts = {}
    /\ resumes = <<>>
    /\ require_selection = {}
    /\ llm_profile = "plain"
    /\ turn = 1
    /\ invoked = [i \in AllIds |-> 0]
    /\ last = NoStep
    /\ gateLog = <<>>
    /\ workflow = NoWorkflow
    /\ sse_client = NoClient

\* call_model (the text path), then the edge should_continue
CallModel ==
    /\ next = "reasoning"
    /\ \E tool_calls \in Plans(messages) :
        /\ messages' = Append(messages, AIMessage(<<"draft">>, tool_calls))
        /\ next' = v1_should_continue(iteration_count + 1, total_tool_calls,
                                      tool_calls)
    /\ iteration_count' = iteration_count + 1
    /\ last' = [step |-> "call_model"]
    /\ UNCHANGED <<total_tool_calls, decision, action_results, interrupts,
                   resumes, require_selection, llm_profile, turn, invoked, gateLog>>
    /\ UNCHANGED <<workflow, sse_client>>

\* call_tools, then the edge action -> reasoning; an exception that leaves
\* the node ends the run without a state update
CallTools ==
    /\ next = "action"
    /\ \E history \in {SubSeq(messages, 1, Len(messages) - 1),
                       as_executed(SubSeq(messages, 1, Len(messages) - 1))} :
       \E r \in {call_tools(history, messages[Len(messages)].tool_calls,
                            total_tool_calls)} :
       \E outcomes \in [1..Len(r.executed) -> RunOutcomes] :
       \E tool_outputs \in {[j \in 1..Len(r.executed) |->
                                run_one(r.executed[j], outcomes[j])]} :
        LET escaped == r.kind = "TypeError"
        IN  /\ last' = [step |-> "call_tools", pass |-> r,
                        history |-> history,
                        outcomes |-> outcomes,
                        escaped |-> escaped,
                        len_before |-> Len(messages),
                        total_before |-> total_tool_calls]
            /\ IF escaped
               THEN /\ next' = "ERROR"
                    /\ UNCHANGED <<messages, total_tool_calls>>
               ELSE /\ messages' = messages \o tool_outputs
                    /\ total_tool_calls' = r.total_tool_calls
                    /\ next' = "reasoning"
    /\ UNCHANGED <<iteration_count, decision, action_results, interrupts,
                   resumes, require_selection, llm_profile, turn, invoked, gateLog>>
    /\ UNCHANGED <<workflow, sse_client>>

NextV1 ==
    \/ CallModel
    \/ CallTools

SpecV1 == InitV1 /\ [][NextV1]_vars

(***************************************************************************)
(* Properties of call_tools (V1).                                          *)
(***************************************************************************)
\* call_tools returned
V1Pass == last.step = "call_tools" /\ ~last.escaped
\* the messages call_tools added
NewMessages == SubSeq(messages, last.len_before + 1, Len(messages))
Items(call) == {call.args[j] : j \in DOMAIN call.args}
\* the call has the name and the argument items of a tool call of an
\* earlier AIMessage
InHistory(call) ==
    LET hist == ai_tool_calls(last.history)
    IN  \E j \in DOMAIN hist :
            hist[j].name = call.name /\ Items(hist[j]) = Items(call)
NotInHistory(call) == ~InHistory(call)

\* C27: call_tools answers at most MAX_TOOL_CALLS_PER_ITERATION calls in a
\* step and total_tool_calls stays within MAX_TOTAL_TOOL_CALLS: the calls
\* answered are the first calls of the plan that are no duplicates, in
\* order, as many as both limits allow, and total_tool_calls grows by
\* their number.
C27_Truncated ==
    /\ total_tool_calls <= AgentConfig_MAX_TOTAL_TOOL_CALLS
    /\ V1Pass =>
         LET kept == SelectSeq(last.pass.planned, NotInHistory)
             n == Min({Len(kept), AgentConfig_MAX_TOOL_CALLS_PER_ITERATION,
                       AgentConfig_MAX_TOTAL_TOOL_CALLS - last.total_before})
         IN  /\ Len(NewMessages) <= AgentConfig_MAX_TOOL_CALLS_PER_ITERATION
             /\ Len(NewMessages) = n
             /\ \A j \in 1..n : NewMessages[j].tool_call_id = kept[j].id
             /\ Len(last.pass.executed) = n
             /\ total_tool_calls = last.total_before + n

\* C27 witness: a plan with more new calls than the per-step limit was
\* truncated.
C27_Witness ==
    /\ V1Pass
    /\ Len(last.pass.filtered) > AgentConfig_MAX_TOOL_CALLS_PER_ITERATION
    /\ Len(NewMessages) = AgentConfig_MAX_TOOL_CALLS_PER_ITERATION
    /\ total_tool_calls = AgentConfig_MAX_TOOL_CALLS_PER_ITERATION

\* C28: a planned call with the name and the argument items, in any key
\* order, of a tool call of an earlier AIMessage is not run and gets no
\* ToolMessage; when this holds for every planned call, no message is added
\* and total_tool_calls is unchanged.
C28_DuplicateDropped ==
    V1Pass =>
      LET planned == last.pass.planned
          answered == {NewMessages[j].tool_call_id : j \in DOMAIN NewMessages}
          run == {last.pass.executed[j].id : j \in DOMAIN last.pass.executed}
      IN  /\ \A j \in DOMAIN planned :
                 InHistory(planned[j]) => planned[j].id \notin answered \cup run
          /\ (\A j \in DOMAIN planned : InHistory(planned[j]))
                 => /\ Len(messages) = last.len_before
                    /\ total_tool_calls = last.total_before

\* C28 witness: the only planned call repeats an earlier call with the keys
\* in the other order and is dropped.
C28_Witness ==
    /\ V1Pass
    /\ last.pass.kind = "all_duplicates"
    /\ \E j \in DOMAIN last.pass.planned :
           /\ last.pass.planned[j].args = ArgsCK
           /\ \E k \in DOMAIN ai_tool_calls(last.history) :
                  ai_tool_calls(last.history)[k].args = ArgsKC
    /\ total_tool_calls > 0

\* C29: call_tools never lets an exception escape, and the messages it adds
\* are one ToolMessage per executed call, with the id of the call, in the
\* order of the calls.
C29_OneMessagePerCall ==
    last.step = "call_tools" =>
        /\ ~last.escaped
        /\ Len(NewMessages) = Len(last.pass.executed)
        /\ \A j \in DOMAIN NewMessages :
               /\ NewMessages[j].type = "tool"
               /\ NewMessages[j].tool_call_id = last.pass.executed[j].id

(***************************************************************************)
(* is_candidate_list (hitl_config.py:148-200) on structured results.       *)
(* A Python value is a record: t is its type ("atom" for a number, None    *)
(* or bool), n the length of a list, json whether a str is a JSON text,    *)
(* kids the items of a dict, the first element of a list under "0", the    *)
(* value a JSON text decodes to under "of".                                *)
(***************************************************************************)
\* longest list, deepest nesting of content wrappers
MaxItems == 3
MaxUnwraps == 3

list_keys == <<"results", "items", "data", "list", "candidates", "pois",
               "trains", "mPoiInfoList">>

NoKids == [k \in {} |-> TRUE]
Atom == [t |-> "atom", n |-> 0, json |-> FALSE, kids |-> NoKids]
PyList(n, first) ==
    [t |-> "list", n |-> n, json |-> FALSE,
     kids |-> IF n = 0 THEN NoKids ELSE [k \in {"0"} |-> first]]
PyDict(items) == [t |-> "dict", n |-> 0, json |-> FALSE, kids |-> items]
Dict1(k, v) == PyDict([x \in {k} |-> v])
Dict2(k1, v1, k2, v2) == PyDict([x \in {k1, k2} |-> IF x = k1 THEN v1 ELSE v2])
\* the str json.dumps(v), and a str that is no JSON text
JsonText(v) == [t |-> "str", n |-> 0, json |-> TRUE, kids |-> [k \in {"of"} |-> v]]
NotJson == [t |-> "str", n |-> 0, json |-> FALSE, kids |-> NoKids]
\* the MCP result {"content": [{"type": "text", "text": text}]}
Content(text) == Dict1("content", PyList(1, Dict2("type", Atom, "text", text)))

\* results of tools
PlainLists == {PyList(n, Atom) : n \in 0..MaxItems}
KeyedDicts ==
    {Dict1(k, v) : k \in {"results", "mPoiInfoList", "name"},
                   v \in PlainLists \cup {Atom}}
    \cup {Dict2("results", v, "mPoiInfoList", w) :
              v, w \in PlainLists \ {PyList(0, Atom)}}
ValueDicts ==
    {Dict1("value", d) : d \in KeyedDicts \cup PlainLists}
    \cup {Dict1("value", Dict1("value", Dict1("results", l))) : l \in PlainLists}
    \cup {Dict2("results", PyList(1, Atom), "value", Dict1("mPoiInfoList", l)) :
              l \in PlainLists}
Plain == PlainLists \cup {Atom} \cup KeyedDicts \cup ValueDicts
\* what a content wrapper carries
Carried ==
    PlainLists
    \cup {Dict1(k, l) : k \in {"results", "name"}, l \in PlainLists}
    \cup {Dict1("value", Dict1("mPoiInfoList", l)) : l \in PlainLists}
Wrapped1 ==
    {Content(JsonText(v)) : v \in Carried}
    \cup {Content(JsonText(JsonText(l))) : l \in PlainLists}
    \cup {Content(NotJson), Content(Atom), Content(PyList(2, Atom)),
          Dict1("content", PyList(0, Atom)),
          Dict1("content", PyList(2, Atom)),
          Dict1("content", PyList(1, Dict1("type", Atom))),
          Dict1("content", JsonText(PyList(2, Atom)))}
    \cup {Dict2("results", l, "content",
                PyList(1, Dict1("text", JsonText(PyList(3, Atom))))) :
              l \in PlainLists}
Wrapped2 == {Content(JsonText(w)) : w \in Wrapped1}
Wrapped3 == {Content(JsonText(Content(JsonText(Content(JsonText(l)))))) :
                l \in PlainLists}
Structured == Plain \cup Wrapped1 \cup Wrapped2 \cup Wrapped3
Results == Structured \cup {JsonText(v) : v \in Structured}
           \cup {NotJson, JsonText(JsonText(PyList(2, Atom)))}
MinCounts == 1..MaxItems

\* json.loads
json_loads(v) ==
    IF v.t # "str" THEN [raised |-> "TypeError", value |-> Atom]
    ELSE IF ~v.json THEN [raised |-> "JSONDecodeError", value |-> Atom]
    ELSE [raised |-> "none", value |-> v.kids["of"]]

Found(l) == [ok |-> TRUE, list |-> l]
NotFound == [ok |-> FALSE, list |-> PyList(0, Atom)]

\* isinstance(v, list) and len(v) >= min_count
long_list(v, min_count) == v.t = "list" /\ v.n >= min_count

\* the first key of list_keys under which d has such a list, or 0
first_list_key(d, min_count) ==
    LET hits == {j \in DOMAIN list_keys :
                    /\ list_keys[j] \in DOMAIN d.kids
                    /\ long_list(d.kids[list_keys[j]], min_count)}
    IN  IF hits = {} THEN 0 ELSE Min(hits)

RECURSIVE is_candidate_list_of(_, _)
\* hitl_config.py:169-200, on the parsed value
parsed_candidate_list(parsed, min_count) ==
    IF long_list(parsed, min_count) THEN Found(parsed)
    ELSE IF parsed.t # "dict" THEN NotFound
    ELSE
    LET j == first_list_key(parsed, min_count)
        value == IF "value" \in DOMAIN parsed.kids
                 THEN parsed.kids["value"] ELSE Atom
        jv == IF value.t = "dict" THEN first_list_key(value, min_count) ELSE 0
    IN  IF j > 0 THEN Found(parsed.kids[list_keys[j]])
        ELSE IF jv > 0 THEN Found(value.kids[list_keys[jv]])
        ELSE IF /\ "content" \in DOMAIN parsed.kids
                /\ parsed.kids["content"].t = "list"
                /\ parsed.kids["content"].n > 0
        THEN LET content_item == parsed.kids["content"].kids["0"]
             IN  IF content_item.t = "dict" /\ "text" \in DOMAIN content_item.kids
                 THEN LET text_parsed == json_loads(content_item.kids["text"])
                      IN  IF text_parsed.raised = "none"
                          THEN is_candidate_list_of(text_parsed.value, min_count)
                          ELSE NotFound
                 ELSE NotFound
        ELSE NotFound

\* mutant: a str result is not parsed
is_candidate_list_no_parse(result, min_count) ==
    parsed_candidate_list(result, min_count)

\* is_candidate_list(result, min_count)
is_candidate_list_of(result, min_count) ==
    IF result.t = "str"
    THEN LET parsed == json_loads(result)
         IN  IF parsed.raised # "none" THEN NotFound
             ELSE parsed_candidate_list(parsed.value, min_count)
    ELSE parsed_candidate_list(result, min_count)

InitCandidates ==
    /\ messages = <<>>
    /\ iteration_count = 0
    /\ total_tool_calls = 0
    /\ decision = EmptyDecision
    /\ action_results = <<>>
    /\ next = "END"
    /\ interrupts = {}
    /\ resumes = <<>>
    /\ require_selection = {}
    /\ llm_profile = "plain"
    /\ turn = 0
    /\ invoked = [i \in AllIds |-> 0]
    /\ gateLog = <<>>
    /\ last \in {[step |-> "result", result |-> v, min_count |-> m] :
                    v \in Results, m \in MinCounts}
    /\ workflow = NoWorkflow
    /\ sse_client = NoClient

\* one call is_candidate_list(result, min_count)
IsCandidateList ==
    /\ last.step = "result"
    /\ last' = [step |-> "is_candidate_list", result |-> last.result,
                min_count |-> last.min_count,
                out |-> is_candidate_list_of(last.result, last.min_count)]
    /\ UNCHANGED <<messages, iteration_count, total_tool_calls, decision,
                   action_results, next, interrupts, resumes, require_selection,
                   llm_profile, turn, invoked, gateLog>>
    /\ UNCHANGED <<workflow, sse_client>>

NextCandidates == IsCandidateList

SpecCandidates == InitCandidates /\ [][NextCandidates]_vars

\* the value after parsing a str result (a str that is no JSON text holds
\* no list)
Parsed(v) == IF v.t = "str" THEN (IF v.json THEN v.kids["of"] ELSE Atom) ELSE v
\* the lists at the places is_candidate_list looks at without unwrapping:
\* the value itself, under a well-known key, under such a key of "value"
KeyedLists(d) ==
    IF d.t # "dict" THEN {}
    ELSE {d.kids[k] : k \in {x \in DOMAIN d.kids :
                                /\ \E j \in DOMAIN list_keys : list_keys[j] = x
                                /\ d.kids[x].t = "list"}}
ListsAt(p) ==
    (IF p.t = "list" THEN {p} ELSE {})
    \cup KeyedLists(p)
    \cup (IF p.t = "dict" /\ "value" \in DOMAIN p.kids
          THEN KeyedLists(p.kids["value"]) ELSE {})
\* the value one content[0].text unwrap below p (Atom: there is none)
Unwrap(p) ==
    IF /\ p.t = "dict"
       /\ "content" \in DOMAIN p.kids
       /\ p.kids["content"].t = "list"
       /\ p.kids["content"].n > 0
       /\ p.kids["content"].kids["0"].t = "dict"
       /\ "text" \in DOMAIN p.kids["content"].kids["0"].kids
       /\ p.kids["content"].kids["0"].kids["text"].t = "str"
       /\ p.kids["content"].kids["0"].kids["text"].json
    THEN Parsed(p.kids["content"].kids["0"].kids["text"].kids["of"])
    ELSE Atom
RECURSIVE Level(_, _)
Level(v, k) == IF k = 0 THEN Parsed(v) ELSE Unwrap(Level(v, k - 1))
\* the lists of at least m items found with at most depth unwraps
ListsWithin(v, depth, m) ==
    UNION {{l \in ListsAt(Level(v, k)) : l.n >= m} : k \in 0..depth}
Applied == last.step = "is_candidate_list"

\* C30 as stated: (True, L) only for a list L of at least min_count items
\* found as the result, under a well-known key, under such a key of "value",
\* or so after one content[0].text unwrap; (False, []) for every other
\* input.
C30_OneUnwrap ==
    Applied =>
        LET found == ListsWithin(last.result, 1, last.min_count)
        IN  /\ last.out.ok => last.out.list \in found
            /\ found = {} => last.out = NotFound

\* C30 amended: (True, L) exactly when a list of at least min_count items
\* is found as the result, under a well-known key or under such a key of
\* "value", directly or after any number of content[0].text unwraps; L is
\* such a list; (False, []) for every other input.
C30_AnyUnwraps ==
    Applied =>
        LET found == ListsWithin(last.result, MaxUnwraps, last.min_count)
        IN  /\ last.out.ok => last.out.list \in found
            /\ found = {} => last.out = NotFound
            /\ found # {} => last.out.ok
            /\ ~last.out.ok => last.out = NotFound

\* C30 witness: a list found after two content[0].text unwraps and not
\* before.
C30_Witness ==
    /\ Applied
    /\ last.out.ok
    /\ last.out.list.n >= last.min_count
    /\ last.min_count = 2
    /\ ListsWithin(last.result, 1, last.min_count) = {}
    /\ last.out.list \in ListsAt(Level(last.result, 2))

(***************************************************************************)
(* The selection checkpoint of _execute_tool_directly                      *)
(* (navigation_agent_v2.py:500-528) on structured tool results.            *)
(***************************************************************************)
\* min_count of is_candidate_list when the caller gives none
DefaultMinCount == 2
\* tools run at the checkpoint, and the registries require_selection may hold
SelectionTools == {"search_poi", "start_navigation"}
SelectionRegistries == {{}, {"search_poi"}}

\* the element l[idx] of a list (the model keeps where it stands)
Element(l, idx) == [of |-> l, idx |-> idx]

\* mutant: ids are the indices of enumerate
formatted_candidates_from_zero(candidates) ==
    [j \in 1..candidates.n |-> [id |-> j - 1, raw |-> Element(candidates, j - 1)]]

\* the loop over enumerate(candidates) (navigation_agent_v2.py:506-520):
\* the j-th pass has idx = j - 1
formatted_candidates(candidates) ==
    [j \in 1..candidates.n |->
        [id |-> (j - 1) + 1, raw |-> Element(candidates, j - 1)]]

SelectionRequest(tool_name, candidates) ==
    [type |-> "selection", tool_name |-> tool_name, candidates |-> candidates]
NoSelection == SelectionRequest("", <<>>)

\* lines 500-528: the request handed to interrupt(), if any
selection_checkpoint(tool_name, result) ==
    LET found == is_candidate_list_of(result, DefaultMinCount)
    IN  IF found.ok /\ need_selection(tool_name)
        THEN [raised |-> TRUE,
              request |-> SelectionRequest(tool_name,
                                           formatted_candidates(found.list))]
        ELSE [raised |-> FALSE, request |-> NoSelection]

InitSelection ==
    /\ messages = <<>>
    /\ iteration_count = 0
    /\ total_tool_calls = 0
    /\ decision = EmptyDecision
    /\ action_results = <<>>
    /\ next = "execution"
    /\ interrupts = {}
    /\ resumes = <<>>
    /\ require_selection \in SelectionRegistries
    /\ llm_profile = "plain"
    /\ turn = 1
    /\ invoked = [i \in AllIds |-> 0]
    /\ gateLog = <<>>
    /\ last \in {[step |-> "tool_result", tool_name |-> t, result |-> v] :
                    t \in SelectionTools, v \in Results}
    /\ workflow = NoWorkflow
    /\ sse_client = NoClient

\* the tool returned result: the selection checkpoint
SelectionCheckpoint ==
    /\ last.step = "tool_result"
    /\ last' = [step |-> "selection_checkpoint", tool_name |-> last.tool_name,
                result |-> last.result,
                out |-> selection_checkpoint(last.tool_name, last.result)]
    /\ UNCHANGED <<messages, iteration_count, total_tool_calls, decision,
                   action_results, next, interrupts, resumes, require_selection,
                   llm_profile, turn, invoked, gateLog>>
    /\ UNCHANGED <<workflow, sse_client>>

NextSelection == SelectionCheckpoint

SpecSelection == InitSelection /\ [][NextSelection]_vars

SelectionChecked == last.step = "selection_checkpoint"

\* C31: a selection request is raised only for a tool of require_selection
\* whose result holds a candidate list; its candidates are one entry per
\* item of that list, in the order of the list, with the ids 1..n.
C31_SelectionCandidates ==
    (SelectionChecked /\ last.out.raised) =>
        /\ last.tool_name \in require_selection
        /\ last.out.request.type = "selection"
        /\ last.out.request.tool_name = last.tool_name
        /\ \E l \in ListsWithin(last.result, MaxUnwraps, DefaultMinCount) :
               LET c == last.out.request.candidates
               IN  /\ Len(c) = l.n
                   /\ \A j \in 1..l.n :
                          c[j].id = j /\ c[j].raw = Element(l, j - 1)

\* C31 witness: a request with three candidates for a list under a key.
C31_Witness ==
    /\ SelectionChecked
    /\ last.out.raised
    /\ last.result.t = "dict"
    /\ Len(last.out.request.candidates) = 3
    /\ last.out.request.candidates[3].id = 3

(***************************************************************************)
(* _classify_last_ai_message (supervisor.py:47-104).  A text is the        *)
(* sequence of its pieces; a piece is a question mark, one of the hint     *)
(* words of the function's tuples, white space or another word:            *)
(*   "?"                 one of question_suffixes                          *)
(*   "qing_tigong"       a user_input_hint                                 *)
(*   "wufa"              an error_hint                                     *)
(*   "dangqian_weizhi"   an intermediate_hint                              *)
(*   "zhengzai_chaxun"   an intermediate_hint that begins with zhengzai    *)
(*   "zhengzai", "shaodeng"   the two leading words of line 92             *)
(*   "tianqi"            a navigation/weather/train answer hint            *)
(***************************************************************************)
MaxPieces == 3

question_suffixes == {"?"}
user_input_hints == {"qing_tigong"}
error_hints == {"wufa"}
intermediate_hints == {"dangqian_weizhi", "zhengzai_chaxun"}
answer_hints == {"tianqi"}
Pieces == question_suffixes \cup user_input_hints \cup error_hints
          \cup intermediate_hints \cup answer_hints
          \cup {"zhengzai", "shaodeng", "word", " "}
Texts == UNION {[1..n -> Pieces] : n \in 0..MaxPieces}
\* the message: None, or an AIMessage with a str content
NoMessage == [none |-> TRUE, content |-> <<>>]
AiText(text) == [none |-> FALSE, content |-> text]
ClassifierInputs == {NoMessage} \cup {AiText(t) : t \in Texts}

\* str.strip()
RECURSIVE lstrip(_)
lstrip(text) ==
    IF text # <<>> /\ Head(text) = " " THEN lstrip(Tail(text)) ELSE text
RECURSIVE rstrip(_)
rstrip(text) ==
    IF text # <<>> /\ text[Len(text)] = " "
    THEN rstrip(SubSeq(text, 1, Len(text) - 1)) ELSE text
strip(text) == rstrip(lstrip(text))

\* _extract_text (supervisor.py:34-44)
extract_text(message) ==
    IF message.none THEN <<>> ELSE strip(message.content)

\* any(hint in text for hint in hints)
contains_any(text, hints) == \E j \in DOMAIN text : text[j] \in hints
\* text.endswith(suffixes), text.startswith(word)
endswith(text, suffixes) == text # <<>> /\ text[Len(text)] \in suffixes
startswith(text, word) ==
    text # <<>> /\ (text[1] = word \/ (word = "zhengzai" /\ text[1] = "zhengzai_chaxun"))

\* mutant: the continue rules are tried before the needs_user_input rules
classify_continue_first(message) ==
    LET text == extract_text(message)
    IN  IF text = <<>> THEN "None"
        ELSE IF contains_any(text, intermediate_hints) THEN "continue"
        ELSE IF startswith(text, "zhengzai") \/ startswith(text, "shaodeng")
        THEN "continue"
        ELSE IF endswith(text, question_suffixes) THEN "needs_user_input"
        ELSE IF contains_any(text, user_input_hints) THEN "needs_user_input"
        ELSE IF contains_any(text, error_hints) THEN "needs_user_input"
        ELSE "complete"

classify_last_ai_message(message) ==
    LET text == extract_text(message)
    IN  IF text = <<>> THEN "None"
        ELSE IF endswith(text, question_suffixes) THEN "needs_user_input"
        ELSE IF contains_any(text, user_input_hints) THEN "needs_user_input"
        ELSE IF contains_any(text, error_hints) THEN "needs_user_input"
        ELSE IF contains_any(text, intermediate_hints) THEN "continue"
        ELSE IF startswith(text, "zhengzai") \/ startswith(text, "shaodeng")
        THEN "continue"
        ELSE IF contains_any(text, answer_hints) THEN "complete"
        ELSE "complete"

InitClassify ==
    /\ messages = <<>>
    /\ iteration_count = 0
    /\ total_tool_calls = 0
    /\ decision = EmptyDecision
    /\ action_results = <<>>
    /\ next = "supervisor"
    /\ interrupts = {}
    /\ resumes = <<>>
    /\ require_selection = {}
    /\ llm_profile = "plain"
    /\ turn = 1
    /\ invoked = [i \in AllIds |-> 0]
    /\ gateLog = <<>>
    /\ workflow = NoWorkflow
    /\ sse_client = NoClient
    /\ last \in {[step |-> "last_ai_message", message |-> m] :
                    m \in ClassifierInputs}

\* one call _classify_last_ai_message(message)
ClassifyLastAiMessage ==
    /\ last.step = "last_ai_message"
    /\ last' = [step |-> "classify", message |-> last.message,
                status |-> classify_last_ai_message(last.message)]
    /\ UNCHANGED <<messages, iteration_count, total_tool_calls, decision,
                   action_results, next, interrupts, resumes, require_selection,
                   llm_profile, turn, invoked, gateLog, workflow, sse_client>>

NextClassify == ClassifyLastAiMessage

SpecClassify == InitClassify /\ [][NextClassify]_vars

Classified == last.step = "classify"
\* the pieces of the message that are no white space at either end
Shown(message) ==
    IF message.none THEN <<>>
    ELSE LET c == message.content
             inked == {j \in DOMAIN c : c[j] # " "}
         IN  IF inked = {} THEN <<>> ELSE SubSeq(c, Min(inked), Max(inked))
Has(text, hints) == {j \in DOMAIN text : text[j] \in hints} # {}
AsksUser(text) ==
    \/ text[Len(text)] = "?"
    \/ Has(text, {"qing_tigong"})
    \/ Has(text, {"wufa"})
InProgress(text) ==
    \/ Has(text, {"dangqian_weizhi", "zhengzai_chaxun"})
    \/ text[1] \in {"zhengzai", "zhengzai_chaxun", "shaodeng"}

\* C33: the rules in strict priority: an empty text gives None; a text
\* that ends in a question mark or holds a user-input or error hint gives
\* needs_user_input, whatever else it holds; otherwise an intermediate hint
\* or a leading zhengzai/shaodeng gives continue; every other text gives
\* complete.
C33_Priority ==
    Classified =>
        LET text == Shown(last.message)
        IN  last.status =
                IF text = <<>> THEN "None"
                ELSE IF AsksUser(text) THEN "needs_user_input"
                ELSE IF InProgress(text) THEN "continue"
                ELSE "complete"

\* C33 witness: a text with a question mark at its end, an intermediate
\* hint and an answer hint is classified needs_user_input.
C33_Witness ==
    /\ Classified
    /\ last.status = "needs_user_input"
    /\ last.message.content = <<"zhengzai_chaxun", "tianqi", "?">>

(***************************************************************************)
(* The multi-agent workflow (graph/workflow.py) and its supervisor         *)
(* (agents/supervisor.py:107-367).  One turn: the graph is invoked with    *)
(* the thread's messages ending in the user's message and runs             *)
(* supervisor -> Send(agents) -> aggregate -> supervisor until the         *)
(* supervisor routes to END.                                               *)
(***************************************************************************)
\* MAX_ITERATIONS of supervisor_agent (10 in the source)
Supervisor_MAX_ITERATIONS == 3
\* messages[-10:]
HistoryWindow == 10

\* the nodes create_workflow adds besides supervisor and aggregate
AgentNodes == {"weather", "general", "train"}

\* the user's text by the keyword lists it meets: "tianqi" is in the list
\* of line 243 and in weather_keywords, "mingtian" in weather_keywords
\* only, "huoche" and "daohang" in both their lists, "word" in none
UserTexts == {<<>>, <<"tianqi">>, <<"mingtian">>, <<"huoche">>, <<"daohang">>, <<"word">>}
general_query_keywords == {"tianqi", "huoche", "daohang"}
weather_keywords == {"tianqi", "mingtian"}
train_keywords == {"huoche"}
navigation_keywords == {"daohang"}

\* what an agent answers with: one text of each class of the classifier
AgentTexts == {<<>>, <<"word", "?">>, <<"zhengzai_chaxun">>, <<"tianqi">>}

WfHuman(text) == [type |-> "human", content |-> text]
WfAI(text) == [type |-> "ai", content |-> text]
\* AIMessage(content="[Supervisor] ...")
SupervisorMessage(note) == WfAI(<<"[Supervisor]", note>>)
is_supervisor_message(msg) ==
    msg.type = "ai" /\ msg.content # <<>> /\ msg.content[1] = "[Supervisor]"

\* what llm.invoke gives: an exception, a content that is no JSON object
\* with these keys, or the parsed status and next_agents
LLMAnswers ==
    {[kind |-> "raise", status |-> "", next_agents |-> <<>>],
     [kind |-> "bad_json", status |-> "", next_agents |-> <<>>]}
    \cup [kind : {"json"},
          status : {"complete", "needs_user_input", "continue", "other"},
          next_agents : {<<>>, <<"general">>, <<"weather", "train">>,
                         <<"navigation">>}]

\* the last user message: reversed(messages), first HumanMessage
last_user_message(msgs) ==
    LET humans == {j \in DOMAIN msgs : msgs[j].type = "human"}
    IN  IF humans = {} THEN <<>> ELSE msgs[Max(humans)].content

RECURSIVE without_supervisor(_)
without_supervisor(msgs) ==
    IF msgs = <<>> THEN <<>>
    ELSE IF is_supervisor_message(Head(msgs))
         THEN without_supervisor(Tail(msgs))
         ELSE <<Head(msgs)>> \o without_supervisor(Tail(msgs))

\* chat_history: the last ten messages without the supervisor's own
chat_history(msgs) ==
    without_supervisor(
        SubSeq(msgs, Max({1, Len(msgs) - HistoryWindow + 1}), Len(msgs)))

\* the last AIMessage of chat_history after its latest HumanMessage
last_ai_message(history) ==
    LET humans == {j \in DOMAIN history : history[j].type = "human"}
        latest_user_idx == IF humans = {} THEN 0 ELSE Max(humans)
        ais == {j \in DOMAIN history :
                    j > latest_user_idx /\ history[j].type = "ai"}
    IN  IF ais = {} THEN NoMessage ELSE AiText(history[Max(ais)].content)

\* mutant: the cap on iteration_count is never reached
reached_max_iterations_never(count) == FALSE

\* iteration_count >= MAX_ITERATIONS
reached_max_iterations(count) == count >= Supervisor_MAX_ITERATIONS

Returned(note, agents, count) ==
    [raised |-> FALSE, message |-> SupervisorMessage(note),
     next_agents |-> agents, iteration_count |-> count]

\* the keyword fallback of the except branch
keyword_agents(user, has_ai_message) ==
    IF contains_any(user, train_keywords) THEN <<"train">>
    ELSE IF contains_any(user, weather_keywords)
         THEN IF ~has_ai_message THEN <<"navigation">> ELSE <<"weather">>
    ELSE IF contains_any(user, navigation_keywords) THEN <<"navigation">>
    ELSE <<"general">>

\* supervisor_agent(state): the dict it returns, or the exception
supervisor_agent(msgs, count, llm) ==
    LET user == last_user_message(msgs)
        ai == last_ai_message(chat_history(msgs))
        last_ai_status == IF ai.none THEN "None"
                          ELSE classify_last_ai_message(ai)
        has_ai_message == ~ai.none
        has_substantive_reply == last_ai_status = "complete"
        is_general_query == ~contains_any(user, general_query_keywords)
    IN  IF reached_max_iterations(count)
        THEN Returned("max", <<>>, count)
        ELSE IF user = <<>> THEN Returned("no_user_message", <<>>, 0)
        ELSE IF last_ai_status = "needs_user_input"
        THEN Returned("needs_user_input", <<>>, 0)
        ELSE IF last_ai_status = "complete" /\ count > 0
        THEN Returned("complete", <<>>, 0)
        ELSE IF count >= 2 /\ has_substantive_reply
        THEN Returned("loop_guard", <<>>, 0)
        ELSE IF is_general_query /\ has_substantive_reply
        THEN Returned("general_done", <<>>, 0)
        ELSE IF llm.kind = "raise"
        THEN [raised |-> TRUE, message |-> SupervisorMessage("raise"),
              next_agents |-> <<>>, iteration_count |-> count]
        ELSE IF llm.kind = "bad_json"
        THEN Returned("keywords", keyword_agents(user, has_ai_message),
                      count + 1)
        ELSE IF llm.status = "complete" /\ ~has_substantive_reply
        THEN Returned("corrected", <<"general">>, count + 1)
        ELSE IF llm.status \in {"complete", "needs_user_input"}
        THEN Returned("finish", <<>>, 0)
        ELSE IF llm.status = "continue"
        THEN IF llm.next_agents = <<>>
             THEN Returned("no_agent", <<>>, 0)
             ELSE Returned("route", llm.next_agents, count + 1)
        ELSE Returned("unknown_status", <<>>, 0)

\* route_supervisor(state) (workflow.py:37-59); a Send to a node the graph
\* does not have ends the run with an error
route_supervisor(agents) ==
    IF agents = <<>> THEN "END"
    ELSE IF \E j \in DOMAIN agents : agents[j] \notin AgentNodes THEN "ERROR"
    ELSE "agents"

InitWorkflow ==
    /\ messages \in {<<>>} \cup {<<WfHuman(u)>> : u \in UserTexts}
    /\ iteration_count \in 0..Supervisor_MAX_ITERATIONS
    /\ workflow \in [stores_next_agents : BOOLEAN, next_agents : {<<>>},
                     rounds : {0}]
    /\ next = "supervisor"
    /\ last = NoStep
    /\ total_tool_calls = 0
    /\ decision = EmptyDecision
    /\ action_results = <<>>
    /\ interrupts = {}
    /\ resumes = <<>>
    /\ require_selection = {}
    /\ llm_profile = "plain"
    /\ turn = 1
    /\ invoked = [i \in AllIds |-> 0]
    /\ gateLog = <<>>
    /\ sse_client = NoClient

\* the supervisor node, then the conditional edge route_supervisor
SupervisorAgent ==
    /\ next = "supervisor"
    /\ \E llm \in LLMAnswers :
         \E r \in {supervisor_agent(messages, iteration_count, llm)} :
           LET stored == IF workflow.stores_next_agents THEN r.next_agents
                         ELSE workflow.next_agents
           IN  /\ last' = [step |-> "supervisor", raised |-> r.raised,
                           before |-> iteration_count,
                           next_agents |-> r.next_agents]
               /\ IF r.raised
                  THEN /\ next' = "ERROR"
                       /\ UNCHANGED <<messages, iteration_count, workflow>>
                  ELSE /\ messages' = Append(messages, r.message)
                       /\ iteration_count' = r.iteration_count
                       /\ workflow' = [workflow EXCEPT !.next_agents = stored]
                       /\ next' = route_supervisor(stored)
    /\ UNCHANGED <<total_tool_calls, decision, action_results, interrupts,
                   resumes, require_selection, llm_profile, turn, invoked,
                   gateLog, sse_client>>

\* the agents sent to run in one step; each returns one AIMessage
AgentsStep ==
    /\ next = "agents"
    /\ \E replies \in [DOMAIN workflow.next_agents -> AgentTexts] :
         messages' = messages \o
                     [j \in DOMAIN workflow.next_agents |-> WfAI(replies[j])]
    /\ next' = "aggregate"
    /\ last' = [step |-> "agents"]
    /\ UNCHANGED <<iteration_count, workflow, total_tool_calls, decision,
                   action_results, interrupts, resumes, require_selection,
                   llm_profile, turn, invoked, gateLog, sse_client>>

\* aggregate_agent, then the edge back to supervisor
AggregateAgent ==
    /\ next = "aggregate"
    /\ workflow' = [workflow EXCEPT !.rounds = @ + 1]
    /\ next' = "supervisor"
    /\ last' = [step |-> "aggregate"]
    /\ UNCHANGED <<messages, iteration_count, total_tool_calls, decision,
                   action_results, interrupts, resumes, require_selection,
                   llm_profile, turn, invoked, gateLog, sse_client>>

NextWorkflow == SupervisorAgent \/ AgentsStep \/ AggregateAgent

SpecWorkflow == InitWorkflow /\ [][NextWorkflow]_vars

SupervisorReturned == last.step = "supervisor" /\ ~last.raised

\* C32: a supervisor step that names at least one agent leaves
\* iteration_count one above what it read, a supervisor step that reads
\* iteration_count >= MAX_ITERATIONS names no agent, and a turn runs at most
\* MAX_ITERATIONS rounds of supervisor, agents and aggregate.
C32_BoundedRounds ==
    /\ (SupervisorReturned /\ last.next_agents # <<>>)
           => iteration_count = last.before + 1
    /\ (SupervisorReturned /\ last.before >= Supervisor_MAX_ITERATIONS)
           => (last.next_agents = <<>> /\ next = "END")
    /\ workflow.rounds <= Supervisor_MAX_ITERATIONS
    /\ workflow.rounds <= iteration_count \/ next \in {"END", "ERROR"}

\* C32 witness: a turn that ran MAX_ITERATIONS rounds is sent to END by
\* the supervisor step that reads iteration_count = MAX_ITERATIONS.
C32_Witness ==
    /\ SupervisorReturned
    /\ last.before = Supervisor_MAX_ITERATIONS
    /\ workflow.rounds = Supervisor_MAX_ITERATIONS
    /\ next = "END"

(***************************************************************************)
(* Observations across the turns of one conversation                       *)
(* (chat.py:279-285, navigation_agent_v2.py:93-95, 584-646).               *)
(***************************************************************************)
\* the messages added since the turn's HumanMessage
ThisTurn(msgs) ==
    LET humans == {j \in DOMAIN msgs : msgs[j].type = "human"}
    IN  IF humans = {} THEN msgs ELSE SubSeq(msgs, Max(humans) + 1, Len(msgs))

\* the turn in hand has run no tool: no ToolMessage was added in it
NoToolThisTurn(msgs) ==
    \A j \in DOMAIN ThisTurn(msgs) : ThisTurn(msgs)[j].type # "tool"

\* C34: the final response of a turn that executed no tool carries no
\* execution summary: Observations an earlier turn left in the checkpoint
\* are not appended to it.
C34_OnlyThisTurnsObservations ==
    (last.step = "response" /\ last.final.kind = "normal"
        /\ NoToolThisTurn(messages))
        => last.final.summary = <<>>

(***************************************************************************)
(* What the gates of _check_hitl_requirements let through                  *)
(* (navigation_agent_v2.py:420-471).                                       *)
(***************************************************************************)
\* the parameters the ask_params interrupt of the action in hand reported
ReportedMissing == missing_params(last.pass.action.name, last.pass.action.args)

\* C35: a tool is never invoked while a parameter that its ask_params
\* interrupt reported missing is still empty, whatever the interrupt was
\* resumed with.
C35_MissingParamsFilled ==
    ToolInvoked =>
        \A p \in ReportedMissing : ~is_empty(last.pass.hitl.args[p])

\* the tokens that confirm: the first of the options of the confirmation
\* interrupt (navigation_agent_v2.py:461)
ConfirmTokens == {Token("queren")}

\* C36: a tool on the require_confirmation registry is invoked only when
\* its confirmation interrupt was resumed with a confirm token.
C36_ExplicitConfirm ==
    (ToolInvoked /\ need_confirmation(last.pass.action.name)) =>
        /\ last.pass.hitl.used >= 1
        /\ last.resumes[last.pass.hitl.used] \in ConfirmTokens

(***************************************************************************)
(* The execution node and the iteration cap                                *)
(* (navigation_agent_v2.py:264-272, 663-691, 702-707).                     *)
(***************************************************************************)
AgentStep == last.step = "agent"

\* C38: the execution node is never entered, and never runs, while
\* iteration_count >= MAX_ITERATIONS: the Decision of the MAX_ITERATIONS-th
\* reasoning round is routed to the response node with its actions
\* unexecuted.
C38_NoExecutionAtCap ==
    /\ next = "execution" => iteration_count < MAX_ITERATIONS
    /\ ExecutionStep => iteration_count < MAX_ITERATIONS
    /\ (AgentStep /\ iteration_count >= MAX_ITERATIONS) => next = "response"

\* C38 witness: the MAX_ITERATIONS-th round asked for an action while the
\* tool-call cap was not reached, and the run was routed to response.
C38_Witness ==
    /\ AgentStep
    /\ iteration_count = MAX_ITERATIONS
    /\ decision.actions # <<>>
    /\ total_tool_calls < MAX_TOTAL_TOOL_CALLS
    /\ next = "response"

(***************************************************************************)
(* The terminal outcome of a stream (chat.py:308-324, 441-492, 574-712).   *)
(***************************************************************************)
TerminalOutcomes(tail) ==
    {j \in DOMAIN tail : tail[j].type \in {"done", "interrupt", "error"}}

\* C37: every stream ends with exactly one terminal outcome out of done,
\* interrupt (with waiting_input) and error; after the timeout's error
\* event no done and no interrupt event follows.
C37_OneTerminalOutcome ==
    StreamEnded =>
       /\ Cardinality(TerminalOutcomes(last.tail)) = 1
       /\ last.timed_out => last.tail = <<ErrorEvent>>

(***************************************************************************)
(* SSEMCPClient (mcp/sse_client.py).  Every _call_method call and the      *)
(* listener task run on one event loop: the code between two awaits is one *)
(* step.  sse_client.calls[c] is the c-th call that was started: where it  *)
(* stands, the request id it took, its Future and the id of the message    *)
(* that resolved it; pending_requests maps a request id to the call whose  *)
(* Future is stored under it.  The server sends any message at any time.   *)
(***************************************************************************)
MaxRequests == 3

\* what an SSE message event carries: a JSON-RPC response with an id (0 is
\* an id no call took), with or without an error; a notification without
\* id; data that is no JSON; data whose id makes the lookup raise
SseMessages ==
    [kind : {"response"}, id : 0..MaxRequests, error : BOOLEAN]
    \cup {[kind |-> k, id |-> 0, error |-> FALSE] :
             k \in {"notification", "bad_json", "unhashable_id"}}

PostOutcomes == {"202", "other_status", "raise"}

NoKey == -1

\* dict operations on _pending_requests
Put(d, key, value) ==
    [k \in DOMAIN d \cup {key} |-> IF k = key THEN value ELSE d[k]]
Pop(d, key) == [k \in DOMAIN d \ {key} |-> d[k]]

\* mutant: an unmatched response is given to the oldest pending request
matched_request_oldest(pending, request_id) ==
    IF request_id \in DOMAIN pending THEN request_id
    ELSE IF DOMAIN pending = {} THEN NoKey
    ELSE Min(DOMAIN pending)

\* `if request_id in self._pending_requests` (sse_client.py:200-201): the
\* key whose Future is popped
matched_request(pending, request_id) ==
    IF request_id \in DOMAIN pending THEN request_id ELSE NoKey

NewCall(request_id) ==
    [pc |-> "posting", request_id |-> request_id, future |-> "pending",
     resolved_by |-> NoKey]

InitSSE ==
    /\ sse_client = NoClient
    /\ last = NoStep
    /\ messages = <<>>
    /\ iteration_count = 0
    /\ total_tool_calls = 0
    /\ decision = EmptyDecision
    /\ action_results = <<>>
    /\ next = "END"
    /\ interrupts = {}
    /\ resumes = <<>>
    /\ require_selection = {}
    /\ llm_profile = "plain"
    /\ turn = 0
    /\ invoked = [i \in AllIds |-> 0]
    /\ gateLog = <<>>
    /\ workflow = NoWorkflow

SseUnchanged ==
    UNCHANGED <<messages, iteration_count, total_tool_calls, decision,
                action_results, next, interrupts, resumes, require_selection,
                llm_profile, turn, invoked, gateLog, workflow>>

SseStep(name, c, message) ==
    [step |-> name, call |-> c, message |-> message, before |-> sse_client]

NoSseMessage == [kind |-> "none", id |-> 0, error |-> FALSE]

\* _call_method up to `await self.client.post` (lines 228-258)
CallMethod ==
    /\ Len(sse_client.calls) < MaxRequests
    /\ LET request_id == sse_client.request_id + 1
           c == Len(sse_client.calls) + 1
       IN  /\ sse_client' =
                 [sse_client EXCEPT
                    !.request_id = request_id,
                    !.calls = Append(@, NewCall(request_id)),
                    !.pending_requests = Put(@, request_id, c)]
           /\ last' = SseStep("call_method", c, NoSseMessage)
    /\ SseUnchanged

\* the POST returns or raises (lines 255-273, 280-282)
PostDone ==
    /\ \E c \in DOMAIN sse_client.calls, outcome \in PostOutcomes :
         /\ sse_client.calls[c].pc = "posting"
         /\ sse_client' =
               IF outcome = "202"
               THEN [sse_client EXCEPT !.calls[c].pc = "waiting"]
               ELSE [sse_client EXCEPT
                       !.calls[c].pc = "raised",
                       !.pending_requests = Pop(@, sse_client.calls[c].request_id)]
         /\ last' = SseStep("post_done", c, NoSseMessage)
    /\ SseUnchanged

\* wait_for returns the Future's result or raises its exception
\* (lines 270-272, 280-282)
WaitDone ==
    /\ \E c \in DOMAIN sse_client.calls :
         /\ sse_client.calls[c].pc = "waiting"
         /\ sse_client.calls[c].future \in {"result", "exception"}
         /\ sse_client' =
               IF sse_client.calls[c].future = "result"
               THEN [sse_client EXCEPT !.calls[c].pc = "returned"]
               ELSE [sse_client EXCEPT
                       !.calls[c].pc = "raised",
                       !.pending_requests = Pop(@, sse_client.calls[c].request_id)]
         /\ last' = SseStep("wait_done", c, NoSseMessage)
    /\ SseUnchanged

\* the 30 s of wait_for pass: wait_for cancels the Future; the call runs
\* again only in a later step of the loop
WaitTimeout ==
    /\ \E c \in DOMAIN sse_client.calls :
         /\ sse_client.calls[c].pc = "waiting"
         /\ sse_client.calls[c].future = "pending"
         /\ sse_client' = [sse_client EXCEPT !.calls[c].pc = "timing_out",
                                             !.calls[c].future = "cancelled"]
         /\ last' = SseStep("wait_timeout", c, NoSseMessage)
    /\ SseUnchanged

\* except asyncio.TimeoutError (lines 275-279)
TimeoutError ==
    /\ \E c \in DOMAIN sse_client.calls :
         /\ sse_client.calls[c].pc = "timing_out"
         /\ sse_client' =
               [sse_client EXCEPT
                  !.calls[c].pc = "timed_out",
                  !.pending_requests = Pop(@, sse_client.calls[c].request_id)]
         /\ last' = SseStep("timeout_error", c, NoSseMessage)
    /\ SseUnchanged

\* _handle_sse_event on a message event (lines 190-215), called by
\* _sse_listener, whose `except Exception` ends the task (157-160).
\* set_result and set_exception raise InvalidStateError on a Future that
\* wait_for has cancelled.
HandleSseEvent ==
    /\ sse_client.sse_task = "running"
    /\ \E message \in SseMessages :
         LET key == IF message.kind = "response"
                    THEN matched_request(sse_client.pending_requests, message.id)
                    ELSE NoKey
             c == IF key = NoKey THEN 0 ELSE sse_client.pending_requests[key]
         IN  /\ sse_client' =
                   IF message.kind = "unhashable_id"
                   THEN [sse_client EXCEPT !.sse_task = "done"]
                   ELSE IF key = NoKey THEN sse_client
                   ELSE IF sse_client.calls[c].future # "pending"
                   THEN [sse_client EXCEPT
                           !.pending_requests = Pop(@, key),
                           !.sse_task = "done"]
                   ELSE [sse_client EXCEPT
                           !.pending_requests = Pop(@, key),
                           !.calls[c].future =
                               IF message.error THEN "exception" ELSE "result",
                           !.calls[c].resolved_by = message.id]
             /\ last' = SseStep("handle_sse_event", c, message)
    /\ SseUnchanged

NextSSE ==
    \/ CallMethod
    \/ PostDone
    \/ WaitDone
    \/ WaitTimeout
    \/ TimeoutError
    \/ HandleSseEvent

SpecSSE == InitSSE /\ [][NextSSE]_vars

Over(call) == call.pc \in {"returned", "raised", "timed_out"}
Resolved(call) == call.future \in {"result", "exception"}
Handled == last.step = "handle_sse_event"
\* the calls whose Future differs between two states of the client
Touched(before, after) ==
    {c \in DOMAIN before.calls :
        <<before.calls[c].future, before.calls[c].resolved_by>>
            # <<after.calls[c].future, after.calls[c].resolved_by>>}

\* C39: a response resolves only the pending call whose request id is the
\* response's id; the id of a call that has returned, timed out or raised
\* is not in _pending_requests; a response whose id is not pending resolves
\* no call.
C39_MatchedOnly ==
    /\ \A c \in DOMAIN sse_client.calls :
          /\ Resolved(sse_client.calls[c])
                => sse_client.calls[c].resolved_by = sse_client.calls[c].request_id
          /\ Over(sse_client.calls[c])
                => sse_client.calls[c].request_id
                       \notin DOMAIN sse_client.pending_requests
    /\ Handled =>
          /\ \A c \in Touched(last.before, sse_client) :
                /\ last.message.kind = "response"
                /\ last.before.calls[c].request_id = last.message.id
                /\ last.message.id \in DOMAIN last.before.pending_requests
                /\ last.before.calls[c].future = "pending"
                /\ ~Over(last.before.calls[c])
          /\ (last.message.kind # "response"
              \/ last.message.id \notin DOMAIN last.before.pending_requests)
                => /\ Touched(last.before, sse_client) = {}
                   /\ sse_client.pending_requests = last.before.pending_requests

\* C39 witness: three calls were started; the response to the third
\* resolved the third alone, the first timed out, and the late response to
\* the first was dropped while the second was still waiting.
C39_Witness ==
    /\ Handled
    /\ last.message.kind = "response"
    /\ last.message.id = 1
    /\ Len(sse_client.calls) = 3
    /\ sse_client.calls[1].pc = "timed_out"
    /\ sse_client.calls[2].pc = "waiting"
    /\ sse_client.calls[2].future = "pending"
    /\ sse_client.calls[3].future = "result"
    /\ DOMAIN sse_client.pending_requests = {2}

=============================================================================
